---------------------------- MODULE Spec2Model ----------------------------
(***************************************************************************)
(* A model of the maps-finder browser extension: the popup (popup.js), the *)
(* background service worker, the Places gateway (api.js), the scoring     *)
(* module (bayesian.js) and chrome.storage (storage.js).                   *)
(*                                                                         *)
(* Conventions.                                                            *)
(*  - A JavaScript value that may be undefined/null is a sequence of       *)
(*    length at most one: <<>> is "absent", <<x>> is the value x.          *)
(*  - Ratings are integers in tenths of a star (45 is 4.5).                *)
(*  - Latitudes and longitudes are integers in thousandths of a degree.    *)
(*  - Distances are integers in metres.                                    *)
(*  - Scores are exact fractions <<numerator, denominator>> in lowest      *)
(*    terms, in tenths of a star; the floating point rounding of the       *)
(*    JavaScript arithmetic is not modelled.                               *)
(*  - A string the code parses is a sequence of one-character strings.     *)
(***************************************************************************)
EXTENDS Integers, Sequences, FiniteSets, TLC

(***************************************************************************)
(* Bounds of the model.                                                    *)
(***************************************************************************)
\* handleSearch invocations of the popup that may be in flight together
MaxFlows == 2
\* longest candidate list the provider answers with
MaxPlaces == 2
\* longest candidate list the distance filter and the ranking are applied to
MaxCandidates == 4
\* largest value of the radius slider, in km
MaxRadiusKm == 2
\* the counter of consent prompts shown saturates here
MaxPrompts == 2
\* AUTOCOMPLETE requests the popup sends
MaxRequests == 2
\* longest input getAutocompleteSuggestions is called with
MaxInputLen == 3
\* migrations of the legacy key in flight at a time
MaxMigrations == 2

(***************************************************************************)
(* CONFIG (config/constants.js).                                           *)
(***************************************************************************)
TOP_RESULTS_TO_SHOW == 3
CONFIDENCE_THRESHOLD == 20
\* 3.7 stars, in tenths
DEFAULT_PRIOR_MEAN == 37
MIN_REVIEWS == 1

(***************************************************************************)
(* Helpers.                                                                *)
(***************************************************************************)
Abs(x) == IF x < 0 THEN 0 - x ELSE x

Min(a, b) == IF a <= b THEN a ELSE b

RECURSIVE Gcd(_, _)
Gcd(a, b) == IF b = 0 THEN a ELSE Gcd(b, a % b)

\* the fraction n/d (d > 0, n >= 0) in lowest terms
Frac(n, d) == LET g == Gcd(n, d) IN <<n \div g, d \div g>>

\* a/b < c/d, for positive denominators
FracLess(x, y) == x[1] * y[2] < y[1] * x[2]

\* JavaScript's (v || dflt) for a number that may be absent
OrElse(v, dflt) == IF v = <<>> \/ v[1] = 0 THEN dflt ELSE v[1]

\* Array.prototype.slice(0, n)
Slice(s, n) == SubSeq(s, 1, Min(n, Len(s)))

(***************************************************************************)
(* api.js: the great-circle distance and the distance filter.              *)
(***************************************************************************)
\* R * pi / 180 / 1000 with R = 6371000: metres of arc in a thousandth of a
\* degree (111.19...), rounded to whole metres
MetersPerMilliDegree == 111

\* haversineDistance for two points of one meridian, where the formula
\* reduces to R * |dLat| (in radians); every coordinate of this model that
\* reaches the distance filter lies on the meridian of the search centre
haversineDistance(lat1, lng1, lat2, lng2) ==
    CASE lng1 = lng2 -> Abs(lat2 - lat1) * MetersPerMilliDegree

\* a filter that adds the distance to the one the place carries
WithDistance_added(place, center) ==
    IF place.location = <<>> THEN place
    ELSE [place EXCEPT !.distanceMeters =
            <<(IF place.distanceMeters = <<>> THEN 0 ELSE place.distanceMeters[1])
              + haversineDistance(center.lat, center.lng,
                                  place.location[1].latitude,
                                  place.location[1].longitude)>>]

\* Math.cos(lat * Math.PI / 180) in thousandths, rounded, for the latitudes of
\* the model (in thousandths of a degree) read as radians
CosMilli_ofRadians(lat) ==
    CASE lat = 0 -> 1000
      [] lat = 1500 -> 71
      [] lat = 40700 -> -990
      [] lat = 40712 -> -992
      [] lat = 48857 -> 161
      [] lat = 90000 -> -448
      [] lat = -90000 -> -448
      [] lat = 95000 -> 730

\* Math.cos(lat * Math.PI / 180) in thousandths, rounded, for the latitudes of
\* the model (in thousandths of a degree); at the poles Math.cos is 6.1e-17
CosMilli(lat) ==
    CASE lat = 0 -> 1000
      [] lat = 1500 -> 1000
      [] lat = 40700 -> 758
      [] lat = 40712 -> 758
      [] lat = 48857 -> 658
      [] lat = 90000 -> 0
      [] lat = -90000 -> 0
      [] lat = 95000 -> -87

\* an offset beyond every longitude, in thousandths of a degree: what the
\* division by the cosine of a pole gives (more than 10^15 degrees)
Huge == 2000000000

\* circleToBounds, in thousandths of a degree.  The offsets are
\* radius / earthRadius and radius / (earthRadius * cos(lat)) in degrees; an
\* offset of Huge swallows the longitude it is added to.
circleToBounds(lat, lng, radius) ==
    LET cos == CosMilli(lat)
        latOffset == radius \div MetersPerMilliDegree
        lngOffset == IF cos = 0 THEN Huge
                     ELSE IF cos > 0
                     THEN (radius * 1000) \div (MetersPerMilliDegree * cos)
                     ELSE 0 - ((radius * 1000) \div (MetersPerMilliDegree * (0 - cos)))
    IN [ north |-> lat + latOffset,
         south |-> lat - latOffset,
         east |-> IF lngOffset = Huge THEN Huge ELSE lng + lngOffset,
         west |-> IF lngOffset = Huge THEN 0 - Huge ELSE lng - lngOffset ]

\* the place as filterByDistance leaves it: distanceMeters is written on
\* every place that has a location, kept or not
WithDistance(place, center) ==
    IF place.location = <<>> THEN place
    ELSE [place EXCEPT !.distanceMeters =
            <<haversineDistance(center.lat, center.lng,
                                place.location[1].latitude,
                                place.location[1].longitude)>>]

\* a filter that drops the places at the radius itself
filterByDistance_strict(places, center, radius) ==
    LET measured == [i \in 1..Len(places) |-> WithDistance(places[i], center)]
        Keep(place) == \/ place.location = <<>>
                       \/ place.distanceMeters[1] < radius
    IN SelectSeq(measured, Keep)

filterByDistance(places, center, radius) ==
    LET measured == [i \in 1..Len(places) |-> WithDistance(places[i], center)]
        Keep(place) == \/ place.location = <<>>
                       \/ place.distanceMeters[1] <= radius
    IN SelectSeq(measured, Keep)

(***************************************************************************)
(* bayesian.js: the two scoring algorithms.                                *)
(***************************************************************************)
\* the pre-filter of both algorithms:
\* place.rating > 0 && (place.userRatingCount || 0) >= MIN_REVIEWS
\* a pre-filter that asks for a rating only
IsValidPlace_rated(place) ==
    /\ place.rating # <<>>
    /\ place.rating[1] > 0

IsValidPlace(place) ==
    /\ place.rating # <<>>
    /\ place.rating[1] > 0
    /\ OrElse(place.userRatingCount, 0) >= MIN_REVIEWS

\* the sum of a sequence of numbers
SumOver(s) ==
    LET sum[i \in 0..Len(s)] == IF i = 0 THEN 0 ELSE sum[i - 1] + s[i]
    IN sum[Len(s)]

\* a prior mean that does not weigh the ratings by the review counts
calculatePriorMean_plain(places) ==
    IF Len(places) = 0 THEN <<DEFAULT_PRIOR_MEAN, 1>>
    ELSE Frac(SumOver([i \in 1..Len(places) |-> places[i].rating[1]]), Len(places))

\* the prior mean as a fraction
calculatePriorMean(places) ==
    LET Reviews(p) == OrElse(p.userRatingCount, 1)
        Weighted(p) == p.rating[1] * Reviews(p)
        totalWeightedRating == SumOver([i \in 1..Len(places) |-> Weighted(places[i])])
        totalReviews == SumOver([i \in 1..Len(places) |-> Reviews(places[i])])
    IN IF Len(places) = 0 \/ totalReviews = 0
       THEN <<DEFAULT_PRIOR_MEAN, 1>>
       ELSE Frac(totalWeightedRating, totalReviews)

\* a score that does not weigh the rating by the review count
calculateScore_unweighted(rating, reviewCount, priorMean, confidenceThreshold) ==
    Frac(confidenceThreshold * priorMean[1] + rating * priorMean[2],
         priorMean[2] * (confidenceThreshold + reviewCount))

\* (C * m + R * v) / (C + v), with m the fraction priorMean
calculateScore(rating, reviewCount, priorMean, confidenceThreshold) ==
    Frac(confidenceThreshold * priorMean[1] + rating * reviewCount * priorMean[2],
         priorMean[2] * (confidenceThreshold + reviewCount))

\* Array.prototype.sort((a, b) => b.bayesianScore - a.bayesianScore): a
\* stable sort by descending score
\* an insertion that puts a place before the places of its own score
RECURSIVE InsertByScore_beforeTies(_, _)
InsertByScore_beforeTies(sorted, place) ==
    IF sorted = <<>> THEN <<place>>
    ELSE IF ~FracLess(place.bayesianScore, Head(sorted).bayesianScore)
         THEN <<place>> \o sorted
         ELSE <<Head(sorted)>> \o InsertByScore_beforeTies(Tail(sorted), place)

RECURSIVE InsertByScore(_, _)
InsertByScore(sorted, place) ==
    IF sorted = <<>> THEN <<place>>
    ELSE IF FracLess(Head(sorted).bayesianScore, place.bayesianScore)
         THEN <<place>> \o sorted
         ELSE <<Head(sorted)>> \o InsertByScore(Tail(sorted), place)

RECURSIVE SortByScore(_)
SortByScore(places) ==
    IF places = <<>> THEN <<>>
    ELSE InsertByScore(SortByScore(SubSeq(places, 1, Len(places) - 1)),
                       places[Len(places)])

calculateBayesianScores(places) ==
    LET validPlaces == SelectSeq(places, IsValidPlace)
        priorMean == calculatePriorMean(validPlaces)
        Scored(place) ==
            [place EXCEPT !.bayesianScore =
                calculateScore(place.rating[1], OrElse(place.userRatingCount, 0),
                               priorMean, CONFIDENCE_THRESHOLD)]
    IN IF Len(validPlaces) = 0 THEN <<>>
       ELSE SortByScore([i \in 1..Len(validPlaces) |-> Scored(validPlaces[i])])

\* Math.log10(x) in thousandths, rounded, for the review counts of the model
Log10Milli(x) ==
    CASE x = 2 -> 301
      [] x = 3 -> 477
      [] x = 11 -> 1041
      [] x = 201 -> 2303

\* a popularity score without POPULARITY_WEIGHT: rating * (1 + log10(reviews + 1))
calculatePopularityScores_unweighted(places) ==
    LET validPlaces == SelectSeq(places, IsValidPlace)
        Scored(place) ==
            LET reviews == OrElse(place.userRatingCount, 1)
                reviewBonus == Log10Milli(reviews + 1)
            IN [place EXCEPT !.bayesianScore =
                   Frac(place.rating[1] * (1000 + reviewBonus), 1000)]
    IN IF Len(validPlaces) = 0 THEN <<>>
       ELSE SortByScore([i \in 1..Len(validPlaces) |-> Scored(validPlaces[i])])

\* rating * (1 + log10(reviews + 1) * 0.3)
calculatePopularityScores(places) ==
    LET validPlaces == SelectSeq(places, IsValidPlace)
        Scored(place) ==
            LET reviews == OrElse(place.userRatingCount, 1)
                reviewBonus == Log10Milli(reviews + 1)
            IN [place EXCEPT !.bayesianScore =
                   Frac(place.rating[1] * (10000 + reviewBonus * 3), 10000)]
    IN IF Len(validPlaces) = 0 THEN <<>>
       ELSE SortByScore([i \in 1..Len(validPlaces) |-> Scored(validPlaces[i])])

calculateScores(places, algorithm) ==
    IF algorithm = "popularity" THEN calculatePopularityScores(places)
    ELSE calculateBayesianScores(places)

(***************************************************************************)
(* Strings: String.prototype.trim, the "lat,lng" pattern of geocodeLocation *)
(* and parseFloat.                                                         *)
(***************************************************************************)
Digits == {"0", "1", "2", "3", "4", "5", "6", "7", "8", "9"}

DigitValue(c) ==
    CASE c = "0" -> 0 [] c = "1" -> 1 [] c = "2" -> 2 [] c = "3" -> 3
      [] c = "4" -> 4 [] c = "5" -> 5 [] c = "6" -> 6 [] c = "7" -> 7
      [] c = "8" -> 8 [] c = "9" -> 9

RECURSIVE TrimStart(_)
TrimStart(s) == IF s # <<>> /\ Head(s) = " " THEN TrimStart(Tail(s)) ELSE s

RECURSIVE TrimEnd(_)
TrimEnd(s) ==
    IF s # <<>> /\ s[Len(s)] = " " THEN TrimEnd(SubSeq(s, 1, Len(s) - 1)) ELSE s

Trim(s) == TrimEnd(TrimStart(s))

\* the index of the first c in s, 0 when there is none
IndexOf(s, c) ==
    IF \E i \in 1..Len(s) : s[i] = c
    THEN CHOOSE i \in 1..Len(s) : s[i] = c /\ \A j \in 1..(i - 1) : s[j] # c
    ELSE 0

\* s as a whole matches -?\d+\.?\d*
MatchesNumber(s) ==
    LET body == IF s # <<>> /\ Head(s) = "-" THEN Tail(s) ELSE s
    IN /\ body # <<>>
       /\ body[1] \in Digits
       /\ \A i \in 1..Len(body) : body[i] \in Digits \cup {"."}
       /\ Cardinality({i \in 1..Len(body) : body[i] = "."}) <= 1

\* the value of a digit string
RECURSIVE DigitsValue(_)
DigitsValue(s) ==
    IF s = <<>> THEN 0
    ELSE DigitsValue(SubSeq(s, 1, Len(s) - 1)) * 10 + DigitValue(s[Len(s)])

\* parseFloat of a string that matches -?\d+\.?\d*, in thousandths; digits
\* past the third decimal are dropped
parseFloat(s) ==
    LET negative == Head(s) = "-"
        body == IF negative THEN Tail(s) ELSE s
        dot == IndexOf(body, ".")
        whole == IF dot = 0 THEN body ELSE SubSeq(body, 1, dot - 1)
        decimals == IF dot = 0 THEN <<>> ELSE SubSeq(body, dot + 1, Len(body))
        padded == SubSeq(decimals \o <<"0", "0", "0">>, 1, 3)
        magnitude == DigitsValue(whole) * 1000 + DigitsValue(padded)
    IN IF negative THEN 0 - magnitude ELSE magnitude

\* a pattern that no query matches
coordMatch_never(query) == <<>>

\* query.match(/^(-?\d+\.?\d*),\s*(-?\d+\.?\d*)$/): the two groups, or <<>>.
\* Neither number can hold a comma, so the first group is all that precedes
\* the first comma, and the second what follows it and its white space.
coordMatch(query) ==
    LET comma == IndexOf(query, ",")
        first == SubSeq(query, 1, comma - 1)
        second == TrimStart(SubSeq(query, comma + 1, Len(query)))
    IN IF comma # 0 /\ MatchesNumber(first) /\ MatchesNumber(second)
       THEN <<first, second>>
       ELSE <<>>

(***************************************************************************)
(* Messages of the errors the code throws and shows.                       *)
(***************************************************************************)
\* popup.js getCurrentPosition: the user declined the consent prompt
LocationDenied == "Location access denied. Please use a custom location instead."
\* popup.js getCurrentPosition: device positioning and the IP lookup failed
LocationUnavailable == "Could not determine location. Please use custom location."
\* popup.js handleSearch: what it shows when getCurrentPosition throws
LocationFailure == "Unable to get your location. Please use a custom location."
MissingQuery == "Please enter what you're looking for"
MissingLocation == "Please enter a location"
\* service worker handleSearch: no API key
ConfigurationError == "API key not configured. Please add your Google API key in settings."
\* api.js geocodeLocation
GeocodeFailed == "Could not find location. Please try a different address."
\* api.js searchByCategory, searchByText: the provider sent no message
PlacesApiError == "Places API error"
\* a message of the provider's own, error.error.message
ProviderMessage == "The provided API key is invalid."
\* service worker getLocationByIP
IPLocationFailed == "Could not determine location"
\* the TypeError of a fetch that the network fails
FetchFailed == "Failed to fetch"
\* chrome.runtime.lastError.message of a message that is not delivered
PortClosed == "Could not establish connection. Receiving end does not exist."

(***************************************************************************)
(* The inputs of the model.                                                *)
(***************************************************************************)
Flows == 1..MaxFlows

\* the location of Scenario 5, "40.7128,-74.0060"
LatLngText ==
    << "4", "0", ".", "7", "1", "2", "8", ",", "-", "7", "4", ".", "0", "0", "6", "0" >>

\* what the user may have typed into the custom location field
CustomLocationInputs ==
    { <<>>, <<" ">>, <<"N", "Y", " ">>, <<"1", ".", "5", ",", " ", "-", "2">>,
      LatLngText }

\* a custom location that spells a pair of numbers no point of the globe has
FarPairText == << "9", "5", ",", "2", "0", "0" >>

\* custom locations that spell the poles
PoleTexts == { << "9", "0", ",", "0" >>, << "-", "9", "0", ",", "0" >> }

\* what the user may have typed into the business type field
BusinessTypeInputs == { <<>>, <<" ", "t", "a", "c", "o">> }

\* the selected option of the category list
CategoryInputs == { <<"c", "a", "f", "e">> }

\* what the user may have typed into the API key field: nothing, a key that
\* is too short, a key of 20 characters
ValidApiKey == [i \in 1..20 |-> "K"]

InvalidApiKeyInputs == { <<>>, <<"k", "e", "y">> }

ApiKeyInputs == InvalidApiKeyInputs \cup { ValidApiKey }

\* the key an earlier version stored unencrypted
LegacyApiKey == [i \in 1..20 |-> "L"]

\* the positions device positioning may report
DevicePoints == { [lat |-> 40712, lng |-> -74006] }

\* the answers of an IP location service: the position it reports (<<>>: it
\* reports none) and the city
IPAnswers ==
    { [point |-> <<[lat |-> 40700, lng |-> -74000]>>, city |-> <<"NYC">>],
      [point |-> <<[lat |-> 0, lng |-> -74000]>>, city |-> <<>>],
      [point |-> <<>>, city |-> <<>>] }

\* the first result of the geocoding endpoint
GeocodePoints == { [lat |-> 48857, lng |-> 2352] }

\* the places a provider answer is made of, each dLat thousandths of a
\* degree north of the search centre on its meridian (<<>>: the place has no
\* location): within 1 km, between 1 km and 2 km, beyond 3 km, without a
\* location, without a rating, one rated as another is, and one with a
\* rating and no review count
PlacesNear ==
    { [ id |-> "a", rating |-> <<45>>, userRatingCount |-> <<200>>, dLat |-> <<3>> ],
      [ id |-> "b", rating |-> <<50>>, userRatingCount |-> <<2>>, dLat |-> <<12>> ],
      [ id |-> "c", rating |-> <<40>>, userRatingCount |-> <<10>>, dLat |-> <<30>> ],
      [ id |-> "d", rating |-> <<45>>, userRatingCount |-> <<10>>, dLat |-> <<>> ],
      [ id |-> "e", rating |-> <<>>, userRatingCount |-> <<>>, dLat |-> <<0>> ],
      [ id |-> "f", rating |-> <<45>>, userRatingCount |-> <<10>>, dLat |-> <<8>> ],
      [ id |-> "g", rating |-> <<48>>, userRatingCount |-> <<>>, dLat |-> <<2>> ] }

\* a rated place at the search centre itself
PlaceAtCentre ==
    [ id |-> "h", rating |-> <<42>>, userRatingCount |-> <<10>>, dLat |-> <<0>> ]

\* the place object of the provider's answer to a search around center
Place(near, center) ==
    [ id |-> near.id, rating |-> near.rating,
      userRatingCount |-> near.userRatingCount,
      location |-> IF near.dLat = <<>> THEN <<>>
                   ELSE <<[latitude |-> center.lat + near.dLat[1],
                           longitude |-> center.lng]>>,
      distanceMeters |-> <<>>, bayesianScore |-> <<>> ]

\* the candidate lists the provider may answer with
ProviderLists == UNION { [1..n -> PlacesNear] : n \in 0..MaxPlaces }

\* the candidate lists the distance filter and the ranking are applied to,
\* long enough for more than TOP_RESULTS_TO_SHOW places to survive
CandidateLists == UNION { [1..n -> PlacesNear] : n \in 0..MaxCandidates }

\* the candidate lists the service worker's handleSearch may get, the place
\* at the centre among them
WorkerLists == UNION { [1..n -> PlacesNear \cup {PlaceAtCentre}] : n \in 0..MaxPlaces }

\* the shortest of them: no place, one place near the centre
ShortProviderLists == { l \in ProviderLists : Len(l) = 0 \/ (Len(l) = 1 /\ l[1].id = "a") }

(***************************************************************************)
(* The state.                                                              *)
(***************************************************************************)
VARIABLES
    storage,        \* chrome.storage.local: apiKeyEnc, apiKey (the legacy key),
                    \* ipConsent, lastResults, preferences
    state,          \* popup.js state: useCurrentLocation, searchByCategory, algorithm, hasApiKey
    visible,        \* the sections of the popup that are not hidden
    keySaving,      \* the key of a handleSaveApiKey that awaits saveApiKey
    migration,      \* the migrations of a legacy key that getStoredApiKey started
    pc,             \* where each handleSearch invocation of the popup stands
    req,            \* its searchQuery, searchMode, radius and algorithm
    loc,            \* its location
    coordinates,    \* the search centre the service worker resolved for it
    bounds,         \* the rectangle of its request to the Text Search endpoint
    candidates,     \* history: the places the provider answered it with
    resp,           \* the responses the service worker has sent to its message
    events,         \* history: what the invocation has done so far
    geoError,       \* history: the error its getCurrentPosition threw
    shown,          \* history: the message it passed to showError
    promptCount,    \* history: consent prompts shown so far, saturating
    autocomplete    \* the custom location field, its debounce timer, the
                    \* AUTOCOMPLETE requests and the suggestion dropdown

vars == <<storage, state, visible, keySaving, migration, pc, req, loc, coordinates, bounds,
          candidates, resp, events, geoError, shown, promptCount, autocomplete>>

\* all but autocomplete
searchVars == <<storage, state, visible, keySaving, migration, pc, req, loc, coordinates, bounds,
                candidates, resp, events, geoError, shown, promptCount>>

flowVars == <<pc, req, loc, coordinates, bounds, candidates, resp, events, geoError, shown>>

NoRequest ==
    [ searchQuery |-> <<>>, searchMode |-> "", radius |-> 0, algorithm |-> "" ]

NoLocation == [ query |-> <<>>, point |-> <<>>, city |-> <<>>, source |-> <<>> ]

\* the AUTOCOMPLETE requests, in the order the popup sends them
Requests == 1..MaxRequests

\* a request that has not been sent (fetched is history: how the fetch of
\* the autocomplete endpoint went)
NoSuggestRequest == [ pc |-> "idle", input |-> <<>>, resp |-> <<>>, fetched |-> <<>> ]

\* autocomplete in a popup that has just opened: value is the text of the
\* custom location field; timeout the inputs that the pending debounce
\* timers will send, in the order they were started (<<>>: no timer is
\* pending), the one autocompleteTimeout names being the last; latest, as
\* history, the input of the last call of handleAutocompleteInput; blurTimer
\* whether the timer of the blur listener is pending; issued the number of
\* requests sent; dropdown the suggestions shown and, as history, the
\* request they answer (<<>>: the dropdown is hidden)
NoAutocomplete ==
    [ value |-> <<>>, timeout |-> <<>>, latest |-> <<>>, blurTimer |-> FALSE,
      issued |-> 0,
      requests |-> [n \in Requests |-> NoSuggestRequest], dropdown |-> <<>> ]

hideAutocomplete(ac) == [ac EXCEPT !.dropdown = <<>>]

showAutocompleteSuggestions(ac, n, suggestions) ==
    [ac EXCEPT !.dropdown = << [ request |-> n, suggestions |-> suggestions ] >>]

\* a handleAutocompleteInput without clearTimeout
handleAutocompleteInput_uncleared(ac) ==
    LET input == Trim(ac.value)
        called == [ac EXCEPT !.latest = <<input>>]
    IN IF Len(input) < 2 THEN hideAutocomplete(called)
       ELSE [called EXCEPT !.timeout = @ \o <<input>>]

\* handleAutocompleteInput: clearTimeout(autocompleteTimeout) clears the timer
\* started last, when it is pending; an input shorter than 2 hides the
\* dropdown, any other starts a timer
handleAutocompleteInput(ac) ==
    LET input == Trim(ac.value)
        cleared == [ac EXCEPT !.timeout = SubSeq(@, 1, Len(@) - 1),
                              !.latest = <<input>>]
    IN IF Len(input) < 2 THEN hideAutocomplete(cleared)
       ELSE [cleared EXCEPT !.timeout = @ \o <<input>>]

\* storage.js encryptValue and decryptValue: AES-GCM under a key derived from
\* the extension id; decryptValue answers null (<<>>) when decryption fails
encryptValue(value) == [ cipher |-> value ]

decryptValue(encrypted) == <<encrypted.cipher>>

\* no migration is in flight; saved is history: the key of the last
\* saveApiKey of handleSaveApiKey that completed
NoMigration == [ inFlight |-> <<>>, saved |-> <<>> ]

\* what getStoredApiKey resolves with: the encrypted key when it is there and
\* decrypts, else the legacy key, else null
getStoredApiKey ==
    LET decrypted == IF storage.apiKeyEnc # <<>>
                     THEN decryptValue(storage.apiKeyEnc[1]) ELSE <<>>
    IN IF decrypted # <<>> THEN decrypted ELSE storage.apiKey

\* getStoredApiKey falls back to the legacy key, which it then migrates
FallsBackToLegacyKey ==
    /\ IF storage.apiKeyEnc = <<>> THEN TRUE
       ELSE decryptValue(storage.apiKeyEnc[1]) = <<>>
    /\ storage.apiKey # <<>>

\* a getIPLocationConsent that does not find the stored consent
getIPLocationConsent_notFound == FALSE

\* storage.js getIPLocationConsent
getIPLocationConsent == storage.ipConsent = <<TRUE>>

\* popup.js showSection: the sections left visible
showSection(section) ==
    IF section = "error" THEN {"error", "search"} ELSE {section}

(***************************************************************************)
(* Init: the popup after init() has run and attached its listeners, on a   *)
(* store with or without an API key and with or without the consent, and   *)
(* without cached results.                                                 *)
(***************************************************************************)
Init ==
    /\ storage \in [ apiKeyEnc : {<<>>, <<encryptValue(ValidApiKey)>>},
                     apiKey : {<<>>},
                     ipConsent : {<<>>, <<TRUE>>},
                     lastResults : {<<>>},
                     preferences : {<<>>} ]
    /\ state = [ useCurrentLocation |-> TRUE, searchByCategory |-> TRUE,
                 algorithm |-> "bayesian", hasApiKey |-> getStoredApiKey # <<>> ]
    /\ visible = IF getStoredApiKey # <<>> THEN showSection("search")
                 ELSE showSection("api-key")
    /\ keySaving = <<>>
    /\ migration = NoMigration
    /\ pc = [f \in Flows |-> "idle"]
    /\ req = [f \in Flows |-> NoRequest]
    /\ loc = [f \in Flows |-> NoLocation]
    /\ coordinates = [f \in Flows |-> <<>>]
    /\ bounds = [f \in Flows |-> <<>>]
    /\ candidates = [f \in Flows |-> <<>>]
    /\ resp = [f \in Flows |-> <<>>]
    /\ events = [f \in Flows |-> {}]
    /\ geoError = [f \in Flows |-> <<>>]
    /\ shown = [f \in Flows |-> <<>>]
    /\ promptCount = 0
    /\ autocomplete = NoAutocomplete

(***************************************************************************)
(* popup.js: the handlers of the toggles and buttons.  A control can be    *)
(* used when its section is not hidden; the settings toggle always can.    *)
(* The text of the error element is kept per invocation, in shown.         *)
(***************************************************************************)
toggleSearchMode(byCategory) ==
    /\ "search" \in visible
    /\ state' = [state EXCEPT !.searchByCategory = byCategory]
    /\ UNCHANGED <<storage, visible, keySaving, migration, flowVars, promptCount>>
    /\ UNCHANGED autocomplete

toggleLocation(useCurrent) ==
    /\ "search" \in visible
    /\ state' = [state EXCEPT !.useCurrentLocation = useCurrent]
    /\ UNCHANGED <<storage, visible, keySaving, migration, flowVars, promptCount>>
    /\ autocomplete' = IF ~useCurrent /\ Len(autocomplete.value) >= 2
                       THEN handleAutocompleteInput(autocomplete)
                       ELSE autocomplete

toggleAlgorithm(algo) ==
    /\ "search" \in visible
    /\ state' = [state EXCEPT !.algorithm = algo]
    /\ UNCHANGED <<storage, visible, keySaving, migration, flowVars, promptCount>>
    /\ UNCHANGED autocomplete

toggleSettings ==
    /\ visible' = IF "api-key" \in visible THEN visible \ {"api-key"}
                  ELSE visible \cup {"api-key"}
    /\ UNCHANGED <<storage, state, keySaving, migration, flowVars, promptCount>>
    /\ UNCHANGED autocomplete

\* the new-search button of the results and the retry button of the error
ShowSearchAgain ==
    /\ "results" \in visible \/ "error" \in visible
    /\ visible' = showSection("search")
    /\ UNCHANGED <<storage, state, keySaving, migration, flowVars, promptCount>>
    /\ UNCHANGED autocomplete

\* handleSaveApiKey up to its await of saveApiKey
handleSaveApiKey(input) ==
    LET apiKey == Trim(input) IN
    /\ "api-key" \in visible
    /\ keySaving = <<>>
    /\ IF apiKey = <<>> \/ Len(apiKey) < 20
       THEN /\ visible' = showSection("error")
            /\ UNCHANGED keySaving
       ELSE /\ keySaving' = <<apiKey>>
            /\ UNCHANGED visible
    /\ UNCHANGED <<storage, state, migration, flowVars, promptCount>>
    /\ UNCHANGED autocomplete

\* saveApiKey writes the encrypted key and handleSaveApiKey resumes
SaveApiKeyDone ==
    /\ keySaving # <<>>
    /\ storage' = [storage EXCEPT !.apiKeyEnc = <<encryptValue(keySaving[1])>>]
    /\ state' = [state EXCEPT !.hasApiKey = TRUE]
    /\ visible' = showSection("search")
    /\ keySaving' = <<>>
    /\ migration' = [migration EXCEPT !.saved = keySaving]
    /\ UNCHANGED <<flowVars, promptCount>>
    /\ UNCHANGED autocomplete

(***************************************************************************)
(* storage.js getStoredApiKey on a store that holds a legacy key: it       *)
(* resolves with the key and, without waiting, calls saveApiKey(legacyKey) *)
(* and then removes the legacy key.                                        *)
(***************************************************************************)
\* a getStoredApiKey of the popup or of the service worker reads no
\* encrypted key that decrypts, and a legacy key: its migration starts
MigrateLegacyKey ==
    /\ FallsBackToLegacyKey
    /\ Len(migration.inFlight) < MaxMigrations
    /\ migration' = [migration EXCEPT
          !.inFlight = Append(@, [ key |-> storage.apiKey[1], stage |-> "set" ])]
    /\ UNCHANGED <<storage, state, visible, keySaving, flowVars, promptCount>>
    /\ UNCHANGED autocomplete

\* saveApiKey(legacyKey) of the i-th migration writes the encrypted key
MigrationSaved(i) ==
    /\ i <= Len(migration.inFlight)
    /\ migration.inFlight[i].stage = "set"
    /\ storage' = [storage EXCEPT
          !.apiKeyEnc = <<encryptValue(migration.inFlight[i].key)>>]
    /\ migration' = [migration EXCEPT !.inFlight[i].stage = "remove"]
    /\ UNCHANGED <<state, visible, keySaving, flowVars, promptCount>>
    /\ UNCHANGED autocomplete

\* the i-th migration removes the legacy key, and is over
MigrationRemoved(i) ==
    /\ i <= Len(migration.inFlight)
    /\ migration.inFlight[i].stage = "remove"
    /\ storage' = [storage EXCEPT !.apiKey = <<>>]
    /\ migration' = [migration EXCEPT
          !.inFlight = SubSeq(@, 1, i - 1) \o SubSeq(@, i + 1, Len(@))]
    /\ UNCHANGED <<state, visible, keySaving, flowVars, promptCount>>
    /\ UNCHANGED autocomplete

(***************************************************************************)
(* popup.js handleSearch and getCurrentPosition.  Each invocation runs in  *)
(* a slot f; its awaits are the points where other handlers interleave.    *)
(***************************************************************************)
\* the invocation ends in showError(message)
ShowError(f, message) ==
    /\ visible' = showSection("error")
    /\ shown' = [shown EXCEPT ![f] = <<message>>]
    /\ pc' = [pc EXCEPT ![f] = "done"]

\* handleSearch sends SEARCH with the location and the algorithm of the moment
SendSearch(f, location) ==
    /\ loc' = [loc EXCEPT ![f] = location]
    /\ req' = [req EXCEPT ![f].algorithm = state.algorithm]
    /\ resp' = [resp EXCEPT ![f] = <<>>]
    /\ pc' = [pc EXCEPT ![f] = "searchMsg"]

\* handleSearch from the click to its first await.  The field values are
\* inputs; the radius slider is taken to keep its value until the
\* invocation ends.
PopupHandleSearch(f, category, businessType, customLocation, sliderKm) ==
    LET byCategory == state.searchByCategory
        searchQuery == IF byCategory THEN category ELSE Trim(businessType)
        customLoc == Trim(customLocation)
        request == [ searchQuery |-> searchQuery,
                     searchMode |-> IF byCategory THEN "category" ELSE "text",
                     radius |-> sliderKm * 1000,
                     algorithm |-> "" ]
    IN
    /\ "search" \in visible
    /\ pc[f] = "idle"
    /\ \A g \in Flows : g < f => pc[g] # "idle"
    /\ IF ~byCategory /\ searchQuery = <<>>
       THEN /\ ShowError(f, MissingQuery)
            /\ UNCHANGED <<req, loc, resp>>
       ELSE IF state.useCurrentLocation
       THEN /\ visible' = showSection("loading")
            /\ req' = [req EXCEPT ![f] = request]
            /\ pc' = [pc EXCEPT ![f] = "geo"]
            /\ UNCHANGED <<shown, loc, resp>>
       ELSE IF customLoc = <<>>
       THEN /\ ShowError(f, MissingLocation)
            /\ UNCHANGED <<req, loc, resp>>
       ELSE /\ visible' = showSection("loading")
            /\ req' = [req EXCEPT ![f] = [request EXCEPT !.algorithm = state.algorithm]]
            /\ loc' = [loc EXCEPT ![f] = [NoLocation EXCEPT !.query = customLoc]]
            /\ resp' = [resp EXCEPT ![f] = <<>>]
            /\ pc' = [pc EXCEPT ![f] = "searchMsg"]
            /\ UNCHANGED shown
    /\ UNCHANGED <<storage, state, keySaving, migration, coordinates, bounds, candidates, events, geoError,
                   promptCount>>
    /\ UNCHANGED autocomplete

\* a getCurrentPosition that returns the device position without a source
DevicePositionSucceeds_untagged(f, point) ==
    /\ pc[f] = "geo"
    /\ SendSearch(f, [NoLocation EXCEPT !.point = <<point>>])
    /\ UNCHANGED <<storage, state, visible, keySaving, migration, coordinates, bounds, candidates,
                   events, geoError, shown, promptCount>>
    /\ UNCHANGED autocomplete

\* navigator.geolocation answers with a position: getCurrentPosition returns
\* it tagged 'gps' and handleSearch sends SEARCH
DevicePositionSucceeds(f, point) ==
    /\ pc[f] = "geo"
    /\ SendSearch(f, [NoLocation EXCEPT !.point = <<point>>, !.source = <<"gps">>])
    /\ UNCHANGED <<storage, state, visible, keySaving, migration, coordinates, bounds, candidates,
                   events, geoError, shown, promptCount>>
    /\ UNCHANGED autocomplete

\* navigator.geolocation is missing, fails or times out (5 s):
\* getCurrentPosition calls getIPLocationConsent
DevicePositionFails(f) ==
    /\ pc[f] = "geo"
    /\ pc' = [pc EXCEPT ![f] = "consentRead"]
    /\ UNCHANGED <<storage, state, visible, keySaving, migration, req, loc,
                   coordinates, bounds, candidates, resp, events, geoError, shown, promptCount>>
    /\ UNCHANGED autocomplete

\* getIPLocationConsent answers: with the consent GET_LOCATION is sent,
\* without it showIPConsentDialog opens the prompt
ReadConsent(f) ==
    /\ pc[f] = "consentRead"
    /\ IF getIPLocationConsent
       THEN /\ pc' = [pc EXCEPT ![f] = "ipMsg"]
            /\ resp' = [resp EXCEPT ![f] = <<>>]
            /\ events' = [events EXCEPT ![f] = @ \cup {"consentRead"}]
            /\ UNCHANGED promptCount
       ELSE /\ pc' = [pc EXCEPT ![f] = "dialog"]
            /\ events' = [events EXCEPT ![f] = @ \cup {"consentRead", "prompt"}]
            /\ promptCount' = Min(promptCount + 1, MaxPrompts)
            /\ UNCHANGED resp
    /\ UNCHANGED <<storage, state, visible, keySaving, migration, req, loc,
                   coordinates, bounds, candidates, geoError, shown>>
    /\ UNCHANGED autocomplete

\* the user allows: getCurrentPosition calls saveIPLocationConsent(true)
ConsentAllow(f) ==
    /\ pc[f] = "dialog"
    /\ pc' = [pc EXCEPT ![f] = "consentSave"]
    /\ UNCHANGED <<storage, state, visible, keySaving, migration, req, loc,
                   coordinates, bounds, candidates, resp, events, geoError, shown, promptCount>>
    /\ UNCHANGED autocomplete

\* a getCurrentPosition that stores the consent when the user denies
ConsentDeny_persisting(f) ==
    /\ pc[f] = "dialog"
    /\ storage' = [storage EXCEPT !.ipConsent = <<TRUE>>]
    /\ geoError' = [geoError EXCEPT ![f] = <<LocationDenied>>]
    /\ ShowError(f, LocationFailure)
    /\ UNCHANGED <<state, keySaving, migration, req, loc, coordinates, bounds, candidates, resp, events,
                   promptCount>>
    /\ UNCHANGED autocomplete

\* the user denies: getCurrentPosition throws, handleSearch catches and shows
\* its own message
ConsentDeny(f) ==
    /\ pc[f] = "dialog"
    /\ geoError' = [geoError EXCEPT ![f] = <<LocationDenied>>]
    /\ ShowError(f, LocationFailure)
    /\ UNCHANGED <<storage, state, keySaving, migration, req, loc, coordinates, bounds, candidates, resp, events,
                   promptCount>>
    /\ UNCHANGED autocomplete

\* a getCurrentPosition that sends GET_LOCATION without storing the consent
SaveConsentDone_unsaved(f) ==
    /\ pc[f] = "consentSave"
    /\ resp' = [resp EXCEPT ![f] = <<>>]
    /\ pc' = [pc EXCEPT ![f] = "ipMsg"]
    /\ UNCHANGED <<storage, state, visible, keySaving, migration, req, loc, coordinates, bounds,
                   candidates, events, geoError, shown, promptCount>>
    /\ UNCHANGED autocomplete

\* saveIPLocationConsent(true) has written and getCurrentPosition sends
\* GET_LOCATION
SaveConsentDone(f) ==
    /\ pc[f] = "consentSave"
    /\ storage' = [storage EXCEPT !.ipConsent = <<TRUE>>]
    /\ events' = [events EXCEPT ![f] = @ \cup {"consentSaved"}]
    /\ resp' = [resp EXCEPT ![f] = <<>>]
    /\ pc' = [pc EXCEPT ![f] = "ipMsg"]
    /\ UNCHANGED <<state, visible, keySaving, migration, req, loc, coordinates, bounds, candidates,
                   geoError, shown, promptCount>>
    /\ UNCHANGED autocomplete

\* messaging.js sendMessage rejects with chrome.runtime.lastError: the
\* message did not reach the service worker
MessageNotDelivered(f) ==
    /\ pc[f] \in {"ipMsg", "searchMsg"}
    /\ IF pc[f] = "ipMsg"
       THEN /\ geoError' = [geoError EXCEPT ![f] = <<LocationUnavailable>>]
            /\ ShowError(f, LocationFailure)
       ELSE /\ ShowError(f, PortClosed)
            /\ UNCHANGED geoError
    /\ UNCHANGED <<storage, state, keySaving, migration, req, loc, coordinates, bounds, candidates, resp, events,
                   promptCount>>
    /\ UNCHANGED autocomplete

(***************************************************************************)
(* The service worker.  Its onMessage listener answers each message from   *)
(* the promise of the handler: .then(data => sendResponse({ data }))       *)
(* .catch(error => sendResponse({ error: error.message })).                *)
(***************************************************************************)
\* how a handler's promise settles
Resolved(value) == [ rejected |-> FALSE, value |-> <<value>>, message |-> "" ]

Rejected(message) == [ rejected |-> TRUE, value |-> <<>>, message |-> message ]

\* a listener that answers with the value and the error at once
onMessage_both(outcome) ==
    << [ data |-> <<outcome.value>>, error |-> <<outcome.message>> ] >>

\* the responses the listener sends for a handler that settles as outcome
onMessage(outcome) ==
    IF outcome.rejected
    THEN << [ data |-> <<>>, error |-> <<outcome.message>> ] >>
    ELSE << [ data |-> outcome.value, error |-> <<>> ] >>

\* the listener sends its responses to the popup
SendResponse(f, outcome, next) ==
    /\ resp' = [resp EXCEPT ![f] = @ \o onMessage(outcome)]
    /\ pc' = [pc EXCEPT ![f] = next]

\* the outcomes of a fetch of an IP location service
IPFetchOutcomes ==
    { [ kind |-> k, answer |-> [point |-> <<>>, city |-> <<>>] ] : k \in {"throws", "notOk"} }
    \cup { [ kind |-> "ok", answer |-> a ] : a \in IPAnswers }

\* data.latitude && data.longitude (data.lat && data.lon): a zero is falsy
HasPoint(answer) ==
    /\ answer.point # <<>>
    /\ answer.point[1].lat # 0
    /\ answer.point[1].lng # 0

IPLocation(answer) ==
    [ NoLocation EXCEPT !.point = answer.point, !.city = answer.city,
                        !.source = <<"ip">> ]

\* GET_LOCATION arrives: getLocationByIP fetches ipapi.co
GetLocationReceived(f) ==
    /\ pc[f] = "ipMsg"
    /\ pc' = [pc EXCEPT ![f] = "ip1"]
    /\ events' = [events EXCEPT ![f] = @ \cup {"ipLookup"}]
    /\ UNCHANGED <<storage, state, visible, keySaving, migration, req, loc,
                   coordinates, bounds, candidates, resp, geoError, shown, promptCount>>
    /\ UNCHANGED autocomplete

\* getLocationByIP after ipapi.co: a position is returned, anything else
\* falls back to a fetch of ip-api.com
FirstIPServiceResponds(f, outcome) ==
    /\ pc[f] = "ip1"
    /\ IF outcome.kind = "ok" /\ HasPoint(outcome.answer)
       THEN SendResponse(f, Resolved(IPLocation(outcome.answer)), "ipResp")
       ELSE /\ pc' = [pc EXCEPT ![f] = "ip2"]
            /\ UNCHANGED resp
    /\ UNCHANGED <<storage, state, visible, keySaving, migration, req, loc,
                   coordinates, bounds, candidates, events, geoError, shown, promptCount>>
    /\ UNCHANGED autocomplete

\* a getLocationByIP that fetches ipapi.co again when ip-api.com has no position
SecondIPServiceResponds_again(f, outcome) ==
    /\ pc[f] = "ip2"
    /\ IF outcome.kind # "throws" /\ HasPoint(outcome.answer)
       THEN SendResponse(f, Resolved(IPLocation(outcome.answer)), "ipResp")
       ELSE /\ pc' = [pc EXCEPT ![f] = "ip1"]
            /\ UNCHANGED resp
    /\ UNCHANGED <<storage, state, visible, keySaving, migration, req, loc,
                   coordinates, bounds, candidates, events, geoError, shown, promptCount>>
    /\ UNCHANGED autocomplete

\* getLocationByIP after ip-api.com, whose response.ok is not looked at
SecondIPServiceResponds(f, outcome) ==
    /\ pc[f] = "ip2"
    /\ IF outcome.kind # "throws" /\ HasPoint(outcome.answer)
       THEN SendResponse(f, Resolved(IPLocation(outcome.answer)), "ipResp")
       ELSE SendResponse(f, Rejected(IPLocationFailed), "ipResp")
    /\ UNCHANGED <<storage, state, visible, keySaving, migration, req, loc,
                   coordinates, bounds, candidates, events, geoError, shown, promptCount>>
    /\ UNCHANGED autocomplete

\* getCurrentPosition gets the response to GET_LOCATION: an error is thrown
\* on as LocationUnavailable, which handleSearch catches; a position is
\* returned and handleSearch sends SEARCH
PopupLocationResponse(f) ==
    LET response == resp[f][1] IN
    /\ pc[f] = "ipResp"
    /\ IF response.error # <<>>
       THEN /\ geoError' = [geoError EXCEPT ![f] = <<LocationUnavailable>>]
            /\ ShowError(f, LocationFailure)
            /\ UNCHANGED <<req, loc, resp>>
       ELSE /\ SendSearch(f, response.data[1])
            /\ UNCHANGED <<geoError, visible, shown>>
    /\ UNCHANGED <<storage, state, keySaving, migration, coordinates, bounds, candidates, events, promptCount>>
    /\ UNCHANGED autocomplete

(***************************************************************************)
(* The service worker's handleSearch, with api.js geocodeLocation,         *)
(* searchByCategory and searchByText.                                      *)
(***************************************************************************)
\* Number.prototype.toFixed(1) of metres / 1000: tenths of a km, rounded
distanceKm(distanceMeters) == (distanceMeters + 50) \div 100

\* one entry of the list handleSearch returns (the display name and the
\* address, copied through, are left out)
ResultOf(place) ==
    [ placeId |-> place.id,
      rating |-> OrElse(place.rating, 0),
      reviewCount |-> OrElse(place.userRatingCount, 0),
      bayesianScore |-> place.bayesianScore,
      distanceKm |-> IF place.distanceMeters # <<>> /\ place.distanceMeters[1] # 0
                     THEN <<distanceKm(place.distanceMeters[1])>>
                     ELSE <<>> ]

\* searchByCategory once the provider has answered with data.places
searchByCategory(places, location, radius) == filterByDistance(places, location, radius)

\* a searchByText that returns data.places as they are
searchByText_unfiltered(places, location, radius) == places

\* searchByText once the provider has answered with data.places
searchByText(places, location, radius) == filterByDistance(places, location, radius)

\* a handleSearch that returns the top places without scoring them
RankedResults_unscored(places, algorithm) ==
    LET top == Slice(places, TOP_RESULTS_TO_SHOW)
    IN [i \in 1..Len(top) |-> ResultOf(top[i])]

\* a handleSearch that returns every scored place
RankedResults_whole(places, algorithm) ==
    LET scoredPlaces == calculateScores(places, algorithm)
    IN [i \in 1..Len(scoredPlaces) |-> ResultOf(scoredPlaces[i])]

\* handleSearch from the places to its return value
RankedResults(places, algorithm) ==
    IF Len(places) = 0 THEN <<>>
    ELSE LET scoredPlaces == calculateScores(places, algorithm)
             top == Slice(scoredPlaces, TOP_RESULTS_TO_SHOW)
         IN [i \in 1..Len(top) |-> ResultOf(top[i])]

\* handleSearch calls searchByCategory or searchByText, which fetch
RequestPlaces(f, center) ==
    /\ coordinates' = [coordinates EXCEPT ![f] = <<center>>]
    /\ bounds' = [bounds EXCEPT ![f] =
                     IF req[f].searchMode = "text"
                     THEN <<circleToBounds(center.lat, center.lng, req[f].radius)>>
                     ELSE <<>>]
    /\ UNCHANGED candidates
    /\ pc' = [pc EXCEPT ![f] = "swProvider"]

\* SEARCH arrives: handleSearch calls getStoredApiKey
SearchReceived(f) ==
    /\ pc[f] = "searchMsg"
    /\ pc' = [pc EXCEPT ![f] = "swKey"]
    /\ UNCHANGED <<storage, state, visible, keySaving, migration, req, loc,
                   coordinates, bounds, candidates, resp, events, geoError, shown, promptCount>>
    /\ UNCHANGED autocomplete

\* getStoredApiKey answers.  Without a key handleSearch throws; a location
\* query that is a "lat,lng" pair is parsed by geocodeLocation and any other
\* query is fetched from the geocoding endpoint; then the places are fetched
WorkerReadsKey(f) ==
    LET query == loc[f].query
        match == coordMatch(query)
    IN
    /\ pc[f] = "swKey"
    /\ IF getStoredApiKey = <<>>
       THEN /\ SendResponse(f, Rejected(ConfigurationError), "searchResp")
            /\ events' = [events EXCEPT ![f] = @ \cup {"keyMissing"}]
            /\ UNCHANGED <<coordinates, bounds, candidates>>
       ELSE IF query # <<>> /\ match = <<>>
       THEN /\ pc' = [pc EXCEPT ![f] = "swGeocode"]
            /\ events' = [events EXCEPT ![f] = @ \cup {"geocodeRequest"}]
            /\ UNCHANGED <<coordinates, bounds, candidates, resp>>
       ELSE /\ RequestPlaces(f, IF query # <<>>
                                 THEN [ lat |-> parseFloat(match[1]),
                                        lng |-> parseFloat(match[2]) ]
                                 ELSE loc[f].point[1])
            /\ events' = [events EXCEPT ![f] = @ \cup {"providerRequest"}]
            /\ UNCHANGED resp
    /\ UNCHANGED <<storage, state, visible, keySaving, migration, req, loc,
                   geoError, shown, promptCount>>
    /\ UNCHANGED autocomplete

\* the outcomes of the fetch of the geocoding endpoint: the fetch throws;
\* the response is a 2xx whose status is not OK or that has no results; it
\* is not a 2xx, and its body, whose status is not OK, holds a message of
\* the provider or none; or it holds a first result
GeocodeOutcomes ==
    { [ kind |-> k, point |-> <<>>, message |-> <<>> ] : k \in {"throws", "none"} }
    \cup { [ kind |-> "notOk", point |-> <<>>, message |-> m ] :
              m \in {<<>>, <<ProviderMessage>>} }
    \cup { [ kind |-> "ok", point |-> <<p>>, message |-> <<>> ] : p \in GeocodePoints }

\* history: what a response that is not a 2xx adds to the events
NotOkEvents(endpoint, outcome) ==
    IF outcome.kind # "notOk" THEN {}
    ELSE {endpoint} \cup (IF outcome.message # <<>> THEN {"providerMessage"} ELSE {})

\* a geocodeLocation that returns when the endpoint has no result
GeocodeResponds_goesOn(f, outcome) ==
    /\ pc[f] = "swGeocode"
    /\ IF outcome.kind = "throws"
       THEN /\ SendResponse(f, Rejected(FetchFailed), "searchResp")
            /\ events' = [events EXCEPT ![f] = @ \cup {"geocodeFailed"}]
            /\ UNCHANGED <<coordinates, bounds, candidates>>
       ELSE /\ RequestPlaces(f, IF outcome.kind # "ok" THEN [lat |-> 0, lng |-> 0]
                                 ELSE outcome.point[1])
            /\ events' = [events EXCEPT ![f] =
                             @ \cup {"providerRequest"}
                               \cup (IF outcome.kind # "ok" THEN {"geocodeFailed"} ELSE {})
                               \cup NotOkEvents("geocodeNotOk", outcome)]
            /\ UNCHANGED resp
    /\ UNCHANGED <<storage, state, visible, keySaving, migration, req, loc,
                   geoError, shown, promptCount>>
    /\ UNCHANGED autocomplete

\* geocodeLocation after its fetch
GeocodeResponds(f, outcome) ==
    /\ pc[f] = "swGeocode"
    /\ IF outcome.kind = "throws"
       THEN /\ SendResponse(f, Rejected(FetchFailed), "searchResp")
            /\ events' = [events EXCEPT ![f] = @ \cup {"geocodeFailed"}]
            /\ UNCHANGED <<coordinates, bounds, candidates>>
       ELSE IF outcome.kind \in {"none", "notOk"}
       THEN /\ SendResponse(f, Rejected(GeocodeFailed), "searchResp")
            /\ events' = [events EXCEPT ![f] = @ \cup {"geocodeFailed"}
                                                  \cup NotOkEvents("geocodeNotOk", outcome)]
            /\ UNCHANGED <<coordinates, bounds, candidates>>
       ELSE /\ RequestPlaces(f, outcome.point[1])
            /\ events' = [events EXCEPT ![f] = @ \cup {"providerRequest"}]
            /\ UNCHANGED resp
    /\ UNCHANGED <<storage, state, visible, keySaving, migration, req, loc,
                   geoError, shown, promptCount>>
    /\ UNCHANGED autocomplete

\* the outcomes of the fetch of places: the fetch throws, the response is not
\* ok with or without a message of the provider, or it holds a list
ProviderOutcomes(lists) ==
    { [ kind |-> "throws", message |-> <<>>, places |-> <<>> ],
      [ kind |-> "notOk", message |-> <<>>, places |-> <<>> ],
      [ kind |-> "notOk", message |-> <<ProviderMessage>>, places |-> <<>> ] }
    \cup { [ kind |-> "ok", message |-> <<>>, places |-> l ] : l \in lists }

\* searchByCategory or searchByText after its fetch, and the rest of
\* handleSearch, which runs without a further await
ProviderResponds(f, outcome) ==
    LET center == coordinates[f][1]
        answered == [i \in 1..Len(outcome.places) |-> Place(outcome.places[i], center)]
        places == IF req[f].searchMode = "category"
                  THEN searchByCategory(answered, center, req[f].radius)
                  ELSE searchByText(answered, center, req[f].radius)
    IN
    /\ pc[f] = "swProvider"
    /\ IF outcome.kind = "throws"
       THEN /\ SendResponse(f, Rejected(FetchFailed), "searchResp")
            /\ events' = [events EXCEPT ![f] = @ \cup {"providerFailed"}]
            /\ UNCHANGED candidates
       ELSE IF outcome.kind = "notOk"
       THEN /\ SendResponse(f, Rejected(IF outcome.message # <<>>
                                         THEN outcome.message[1]
                                         ELSE PlacesApiError), "searchResp")
            /\ events' = [events EXCEPT ![f] = @ \cup {"providerFailed"}
                                                  \cup NotOkEvents("placesNotOk", outcome)]
            /\ UNCHANGED candidates
       ELSE /\ SendResponse(f, Resolved(RankedResults(places, req[f].algorithm)),
                            "searchResp")
            /\ candidates' = [candidates EXCEPT ![f] = <<answered>>]
            /\ events' = [events EXCEPT ![f] =
                             @ \cup (IF Len(places) # 0 THEN {"scored"} ELSE {})]
    /\ UNCHANGED <<storage, state, visible, keySaving, migration, req, loc, coordinates, bounds,
                   geoError, shown, promptCount>>
    /\ UNCHANGED autocomplete

(***************************************************************************)
(* popup.js handleSearch after the response to SEARCH.                     *)
(***************************************************************************)
\* a handleSearch that saves the preferences before it looks at the response
PopupSearchResponse_savesFirst(f) ==
    LET results == resp[f][1]
        byCategory == state.searchByCategory
        preferences ==
            [ searchByCategory |-> byCategory,
              lastCategory |-> IF byCategory THEN <<req[f].searchQuery>> ELSE <<>>,
              lastBusinessType |-> IF byCategory THEN <<>> ELSE <<req[f].searchQuery>>,
              radius |-> req[f].radius \div 1000,
              useCurrentLocation |-> state.useCurrentLocation,
              algorithm |-> state.algorithm ]
    IN
    /\ pc[f] = "searchResp"
    /\ IF results.error # <<>>
       THEN /\ ShowError(f, results.error[1])
            /\ storage' = [storage EXCEPT !.preferences = <<preferences>>]
       ELSE /\ visible' = showSection("results")
            /\ storage' = [storage EXCEPT
                  !.lastResults = <<[results |-> results.data[1]]>>,
                  !.preferences = <<preferences>>]
            /\ pc' = [pc EXCEPT ![f] = "done"]
            /\ UNCHANGED shown
    /\ UNCHANGED <<state, keySaving, migration, req, loc, coordinates, bounds, candidates, resp, events,
                   geoError, promptCount>>
    /\ UNCHANGED autocomplete

\* handleSearch after the response to SEARCH: an error response is thrown
\* and shown; a list is displayed, and saveLastResults and savePreferences
\* write (of what they write, the search parameters shown with the list, the
\* timestamp and the text of the custom location field are left out)
PopupSearchResponse(f) ==
    LET results == resp[f][1]
        byCategory == state.searchByCategory
        preferences ==
            [ searchByCategory |-> byCategory,
              lastCategory |-> IF byCategory THEN <<req[f].searchQuery>> ELSE <<>>,
              lastBusinessType |-> IF byCategory THEN <<>> ELSE <<req[f].searchQuery>>,
              radius |-> req[f].radius \div 1000,
              useCurrentLocation |-> state.useCurrentLocation,
              algorithm |-> state.algorithm ]
    IN
    /\ pc[f] = "searchResp"
    /\ IF results.error # <<>>
       THEN /\ ShowError(f, results.error[1])
            /\ UNCHANGED storage
       ELSE /\ visible' = showSection("results")
            /\ storage' = [storage EXCEPT
                  !.lastResults = <<[results |-> results.data[1]]>>,
                  !.preferences = <<preferences>>]
            /\ pc' = [pc EXCEPT ![f] = "done"]
            /\ UNCHANGED shown
    /\ UNCHANGED <<state, keySaving, migration, req, loc, coordinates, bounds, candidates, resp, events,
                   geoError, promptCount>>
    /\ UNCHANGED autocomplete

\* the invocation has returned: its slot is free for the next one
Release(f) ==
    /\ pc[f] = "done"
    /\ pc' = [pc EXCEPT ![f] = "idle"]
    /\ req' = [req EXCEPT ![f] = NoRequest]
    /\ loc' = [loc EXCEPT ![f] = NoLocation]
    /\ coordinates' = [coordinates EXCEPT ![f] = <<>>]
    /\ bounds' = [bounds EXCEPT ![f] = <<>>]
    /\ candidates' = [candidates EXCEPT ![f] = <<>>]
    /\ resp' = [resp EXCEPT ![f] = <<>>]
    /\ events' = [events EXCEPT ![f] = {}]
    /\ geoError' = [geoError EXCEPT ![f] = <<>>]
    /\ shown' = [shown EXCEPT ![f] = <<>>]
    /\ UNCHANGED <<storage, state, visible, keySaving, migration, promptCount>>
    /\ UNCHANGED autocomplete

(***************************************************************************)
(* Autocomplete: popup.js handleAutocompleteInput and the listeners of the *)
(* custom location field, the service worker's handleAutocomplete and      *)
(* api.js getAutocompleteSuggestions.  The keyboard selection of a         *)
(* suggestion is left out.                                                 *)
(***************************************************************************)
\* what the user may type into the custom location field
LocationTexts == { <<>>, <<"N">>, <<"N", "Y">>, <<"N", "Y", "C">> }

\* data.suggestions of the provider: for each suggestion, whether it is a
\* placePrediction
SuggestionShapes ==
    { <<>>, <<TRUE>>, <<FALSE, TRUE, TRUE, TRUE, TRUE, TRUE, TRUE>> }

\* the outcomes of the fetch of the autocomplete endpoint: the fetch throws,
\* the response is not ok, or it holds suggestions
AutocompleteOutcomes ==
    { [ kind |-> k, suggestions |-> <<>> ] : k \in {"throws", "notOk"} }
    \cup { [ kind |-> "ok", suggestions |-> l ] : l \in SuggestionShapes }

\* the suggestions of the provider for an input: the i-th placePrediction
\* has the placeId i and a text that starts with the input
ProviderSuggestions(input, shapes) ==
    [ i \in 1..Len(shapes) |->
        [ placePrediction |-> IF shapes[i]
                              THEN << [ placeId |-> i, text |-> input \o <<"_">> ] >>
                              ELSE <<>> ] ]

\* a getAutocompleteSuggestions that maps every placePrediction
getAutocompleteSuggestions_all(input, outcome) ==
    LET suggestions == ProviderSuggestions(input, outcome.suggestions)
        IsPlace(s) == s.placePrediction # <<>>
        places == SelectSeq(suggestions, IsPlace)
    IN IF outcome.kind \in {"throws", "notOk"} \/ Len(suggestions) = 0 THEN <<>>
       ELSE [ i \in 1..Len(places) |->
                [ placeId |-> places[i].placePrediction[1].placeId,
                  fullText |-> places[i].placePrediction[1].text ] ]

\* getAutocompleteSuggestions after its fetch (of the fields it maps, the
\* main and the secondary text are left out)
getAutocompleteSuggestions(input, outcome) ==
    LET suggestions == ProviderSuggestions(input, outcome.suggestions)
        IsPlace(s) == s.placePrediction # <<>>
        places == Slice(SelectSeq(suggestions, IsPlace), 5)
    IN IF outcome.kind \in {"throws", "notOk"} \/ Len(suggestions) = 0 THEN <<>>
       ELSE [ i \in 1..Len(places) |->
                [ placeId |-> places[i].placePrediction[1].placeId,
                  fullText |-> places[i].placePrediction[1].text ] ]

\* the custom location field is shown
LocationFieldShown == "search" \in visible /\ ~state.useCurrentLocation

\* the request n moves on
Request(n, pcNext, responses) ==
    [autocomplete EXCEPT !.requests[n].pc = pcNext, !.requests[n].resp = responses]

\* the input listener: the user has changed the text of the field
InputLocation(text) ==
    /\ LocationFieldShown
    /\ text # autocomplete.value
    /\ autocomplete' = handleAutocompleteInput([autocomplete EXCEPT !.value = text])
    /\ UNCHANGED searchVars

\* the focus listener
FocusLocation ==
    /\ LocationFieldShown
    /\ autocomplete' = IF Len(autocomplete.value) >= 2
                       THEN handleAutocompleteInput(autocomplete)
                       ELSE autocomplete
    /\ UNCHANGED searchVars

\* the blur listener starts its timer
BlurLocation ==
    /\ LocationFieldShown
    /\ autocomplete' = [autocomplete EXCEPT !.blurTimer = TRUE]
    /\ UNCHANGED searchVars

\* the timer of the blur listener fires
BlurTimerFires ==
    /\ autocomplete.blurTimer
    /\ autocomplete' = hideAutocomplete([autocomplete EXCEPT !.blurTimer = FALSE])
    /\ UNCHANGED searchVars

\* handleAutocompleteKeydown on Escape
EscapeKey ==
    /\ LocationFieldShown
    /\ autocomplete.dropdown # <<>>
    /\ autocomplete' = hideAutocomplete(autocomplete)
    /\ UNCHANGED searchVars

\* selectAutocompleteItem, on the mousedown on the i-th suggestion
selectAutocompleteItem(i) ==
    /\ autocomplete.dropdown # <<>>
    /\ i <= Len(autocomplete.dropdown[1].suggestions)
    /\ autocomplete' =
          hideAutocomplete([autocomplete EXCEPT
              !.value = autocomplete.dropdown[1].suggestions[i].fullText])
    /\ UNCHANGED searchVars

\* the pending debounce timer that was started first fires: the popup sends
\* AUTOCOMPLETE with its input
AutocompleteTimerFires ==
    LET n == autocomplete.issued + 1 IN
    /\ autocomplete.timeout # <<>>
    /\ autocomplete.issued < MaxRequests
    /\ autocomplete' = [autocomplete EXCEPT
          !.timeout = Tail(autocomplete.timeout),
          !.issued = n,
          !.requests[n] = [NoSuggestRequest EXCEPT
                              !.pc = "msg", !.input = Head(autocomplete.timeout)]]
    /\ UNCHANGED searchVars

\* sendMessage rejects: the message is not delivered, and the popup hides
\* the dropdown
AutocompleteNotDelivered(n) ==
    /\ autocomplete.requests[n].pc = "msg"
    /\ autocomplete' = hideAutocomplete(Request(n, "done", <<>>))
    /\ UNCHANGED searchVars

\* AUTOCOMPLETE arrives: handleAutocomplete calls getStoredApiKey
AutocompleteReceived(n) ==
    /\ autocomplete.requests[n].pc = "msg"
    /\ autocomplete' = Request(n, "swKey", <<>>)
    /\ UNCHANGED searchVars

\* getStoredApiKey answers: without a key handleAutocomplete returns no
\* suggestion, and so does getAutocompleteSuggestions on an input shorter
\* than 2; on any other it fetches
handleAutocomplete(n) ==
    /\ autocomplete.requests[n].pc = "swKey"
    /\ autocomplete' =
          IF getStoredApiKey = <<>> \/ Len(autocomplete.requests[n].input) < 2
          THEN Request(n, "resp", onMessage(Resolved(<<>>)))
          ELSE Request(n, "fetch", <<>>)
    /\ UNCHANGED searchVars

\* getAutocompleteSuggestions after its fetch, and the response
AutocompleteResponds(n, outcome) ==
    /\ autocomplete.requests[n].pc = "fetch"
    /\ autocomplete' =
          [ Request(n, "resp",
                    onMessage(Resolved(getAutocompleteSuggestions(
                        autocomplete.requests[n].input, outcome))))
            EXCEPT !.requests[n].fetched = <<outcome.kind>> ]
    /\ UNCHANGED searchVars

\* the callback of the debounce timer after the response: suggestions are
\* shown, no suggestion hides the dropdown
PopupAutocompleteResponse(n) ==
    LET response == autocomplete.requests[n].resp[1]
        answered == Request(n, "done", autocomplete.requests[n].resp)
    IN
    /\ autocomplete.requests[n].pc = "resp"
    /\ autocomplete' =
          IF response.data # <<>> /\ Len(response.data[1]) > 0
          THEN showAutocompleteSuggestions(answered, n, response.data[1])
          ELSE hideAutocomplete(answered)
    /\ UNCHANGED searchVars

(***************************************************************************)
(* The specifications.                                                     *)
(*                                                                         *)
(* Spec: the popup on a store with or without an API key and with or       *)
(* without the consent, one handleSearch invocation at a time, from the    *)
(* current or from a custom location, and the service worker behind it.    *)
(***************************************************************************)
\* the steps of the invocation in slot f that take no input
FlowStep(f) ==
    \/ DevicePositionFails(f)
    \/ ReadConsent(f)
    \/ ConsentAllow(f)
    \/ ConsentDeny(f)
    \/ SaveConsentDone(f)
    \/ MessageNotDelivered(f)
    \/ GetLocationReceived(f)
    \/ PopupLocationResponse(f)
    \/ SearchReceived(f)
    \/ WorkerReadsKey(f)
    \/ PopupSearchResponse(f)
    \/ Release(f)

Next ==
    \/ \E b \in BOOLEAN : toggleLocation(b)
    \/ toggleSettings
    \/ ShowSearchAgain
    \/ \E k \in ApiKeyInputs : handleSaveApiKey(k)
    \/ SaveApiKeyDone
    \/ \E c \in CategoryInputs, b \in BusinessTypeInputs, l \in CustomLocationInputs :
            PopupHandleSearch(1, c, b, l, 1)
    \/ \E p \in DevicePoints : DevicePositionSucceeds(1, p)
    \/ \E o \in IPFetchOutcomes : FirstIPServiceResponds(1, o)
    \/ \E o \in IPFetchOutcomes : SecondIPServiceResponds(1, o)
    \/ \E o \in GeocodeOutcomes : GeocodeResponds(1, o)
    \/ \E o \in ProviderOutcomes(ShortProviderLists) : ProviderResponds(1, o)
    \/ FlowStep(1)

Spec == Init /\ [][Next]_vars

(***************************************************************************)
(* SpecLocate: Spec where what getCurrentPosition awaits after the device  *)
(* position failed does settle: the storage reads and writes, the user's   *)
(* answer to the consent dialog, the GET_LOCATION message, the two fetches *)
(* of getLocationByIP and the response to the popup.                       *)
(***************************************************************************)
LocateFairness ==
    /\ WF_vars(ReadConsent(1))
    /\ WF_vars(ConsentAllow(1) \/ ConsentDeny(1))
    /\ WF_vars(SaveConsentDone(1))
    /\ WF_vars(GetLocationReceived(1) \/ MessageNotDelivered(1))
    /\ WF_vars(\E o \in IPFetchOutcomes : FirstIPServiceResponds(1, o))
    /\ WF_vars(\E o \in IPFetchOutcomes : SecondIPServiceResponds(1, o))
    /\ WF_vars(PopupLocationResponse(1))

SpecLocate == Init /\ [][Next]_vars /\ LocateFairness

(***************************************************************************)
(* SpecForm: the search form of a popup that holds an API key: every       *)
(* toggle, every value of the fields and of the slider.                    *)
(***************************************************************************)
InitForm ==
    /\ Init
    /\ getStoredApiKey # <<>>

NextForm ==
    \/ \E b \in BOOLEAN : toggleSearchMode(b)
    \/ \E b \in BOOLEAN : toggleLocation(b)
    \/ \E a \in {"bayesian", "popularity"} : toggleAlgorithm(a)
    \/ ShowSearchAgain
    \/ \E c \in CategoryInputs, b \in BusinessTypeInputs,
          l \in CustomLocationInputs, r \in 1..MaxRadiusKm :
            PopupHandleSearch(1, c, b, l, r)
    \/ \E p \in DevicePoints : DevicePositionSucceeds(1, p)
    \/ \E o \in IPFetchOutcomes : FirstIPServiceResponds(1, o)
    \/ \E o \in IPFetchOutcomes : SecondIPServiceResponds(1, o)
    \/ \E o \in GeocodeOutcomes : GeocodeResponds(1, o)
    \/ \E o \in ProviderOutcomes(ShortProviderLists) : ProviderResponds(1, o)
    \/ FlowStep(1)

SpecForm == InitForm /\ [][NextForm]_vars

(***************************************************************************)
(* SpecConcurrent: a popup that holds an API key, searching from the       *)
(* current location, with up to MaxFlows handleSearch invocations in       *)
(* flight together.                                                        *)
(***************************************************************************)
InitConcurrent ==
    /\ Init
    /\ getStoredApiKey # <<>>

NextConcurrent ==
    \/ toggleSettings
    \/ ShowSearchAgain
    \/ \E k \in InvalidApiKeyInputs : handleSaveApiKey(k)
    \/ \E f \in Flows :
        \/ \E c \in CategoryInputs : PopupHandleSearch(f, c, <<>>, <<>>, 1)
        \/ \E p \in DevicePoints : DevicePositionSucceeds(f, p)
        \/ \E o \in IPFetchOutcomes : FirstIPServiceResponds(f, o)
        \/ \E o \in IPFetchOutcomes : SecondIPServiceResponds(f, o)
        \/ \E o \in ProviderOutcomes({<<>>}) : ProviderResponds(f, o)
        \/ FlowStep(f)

SpecConcurrent == InitConcurrent /\ [][NextConcurrent]_vars

(***************************************************************************)
(* SpecWorker: the service worker's handleSearch on every SEARCH message   *)
(* the popup can send, on every answer of the geocoding endpoint and of    *)
(* the provider.  It starts where the popup has just sent the message.     *)
(***************************************************************************)
\* the payloads of SEARCH: searchQuery, searchMode, radius, algorithm
SearchRequests ==
    { [ searchQuery |-> IF m = "category" THEN c ELSE Trim(b),
        searchMode |-> m, radius |-> r * 1000, algorithm |-> a ] :
        m \in {"category", "text"}, c \in CategoryInputs,
        b \in { t \in BusinessTypeInputs : Trim(t) # <<>> },
        r \in 1..MaxRadiusKm, a \in {"bayesian", "popularity"} }

\* and location: a device position, an IP location, a custom location
SearchLocations ==
    { [NoLocation EXCEPT !.point = <<p>>, !.source = <<"gps">>] : p \in DevicePoints }
    \cup { IPLocation(a) : a \in { x \in IPAnswers : HasPoint(x) } }
    \cup { [NoLocation EXCEPT !.query = Trim(l)] :
             l \in { x \in CustomLocationInputs \cup {FarPairText} \cup PoleTexts :
                        Trim(x) # <<>> } }

InitWorker ==
    /\ storage \in [ apiKeyEnc : {<<>>, <<encryptValue(ValidApiKey)>>},
                     apiKey : {<<>>},
                     ipConsent : {<<>>, <<TRUE>>},
                     lastResults : {<<>>},
                     preferences : {<<>>} ]
    /\ \E request \in SearchRequests, location \in SearchLocations :
        /\ req = [f \in Flows |-> IF f = 1 THEN request ELSE NoRequest]
        /\ loc = [f \in Flows |-> IF f = 1 THEN location ELSE NoLocation]
        /\ state = [ useCurrentLocation |-> location.query = <<>>,
                     searchByCategory |-> request.searchMode = "category",
                     algorithm |-> request.algorithm,
                     hasApiKey |-> getStoredApiKey # <<>> ]
    /\ visible = showSection("loading")
    /\ keySaving = <<>>
    /\ migration = NoMigration
    /\ pc = [f \in Flows |-> IF f = 1 THEN "searchMsg" ELSE "idle"]
    /\ coordinates = [f \in Flows |-> <<>>]
    /\ bounds = [f \in Flows |-> <<>>]
    /\ candidates = [f \in Flows |-> <<>>]
    /\ resp = [f \in Flows |-> <<>>]
    /\ events = [f \in Flows |-> {}]
    /\ geoError = [f \in Flows |-> <<>>]
    /\ shown = [f \in Flows |-> <<>>]
    /\ promptCount = 0
    /\ autocomplete = NoAutocomplete

NextWorker ==
    \/ SearchReceived(1)
    \/ WorkerReadsKey(1)
    \/ \E o \in GeocodeOutcomes : GeocodeResponds(1, o)
    \/ \E o \in ProviderOutcomes(WorkerLists) : ProviderResponds(1, o)
    \/ PopupSearchResponse(1)

SpecWorker == InitWorker /\ [][NextWorker]_vars

(***************************************************************************)
(* SpecRanking: searchByCategory and searchByText, and the ranking that    *)
(* handleSearch applies to what they return, on every candidate list and   *)
(* every radius.  It starts where handleSearch, holding the API key and    *)
(* the coordinates, has called one of the two and its fetch is pending.    *)
(***************************************************************************)
\* the radius argument: the values of the slider, and the distance of each
\* place from the centre
RadiusInputs ==
    { r * 1000 : r \in 1..MaxRadiusKm }
    \cup { near.dLat[1] * MetersPerMilliDegree :
             near \in { n \in PlacesNear : n.dLat # <<>> /\ n.dLat[1] # 0 } }

InitRanking ==
    /\ storage = [ apiKeyEnc |-> <<encryptValue(ValidApiKey)>>, apiKey |-> <<>>,
                   ipConsent |-> <<>>,
                   lastResults |-> <<>>, preferences |-> <<>> ]
    /\ \E request \in SearchRequests, radius \in RadiusInputs, point \in DevicePoints :
        /\ req = [f \in Flows |-> IF f = 1 THEN [request EXCEPT !.radius = radius]
                                   ELSE NoRequest]
        /\ loc = [f \in Flows |->
                    IF f = 1 THEN [NoLocation EXCEPT !.point = <<point>>,
                                                     !.source = <<"gps">>]
                    ELSE NoLocation]
        /\ coordinates = [f \in Flows |-> IF f = 1 THEN <<point>> ELSE <<>>]
        /\ bounds = [f \in Flows |->
                        IF f = 1 /\ request.searchMode = "text"
                        THEN <<circleToBounds(point.lat, point.lng, radius)>>
                        ELSE <<>>]
        /\ state = [ useCurrentLocation |-> TRUE,
                     searchByCategory |-> request.searchMode = "category",
                     algorithm |-> request.algorithm,
                     hasApiKey |-> TRUE ]
    /\ visible = showSection("loading")
    /\ keySaving = <<>>
    /\ migration = NoMigration
    /\ pc = [f \in Flows |-> IF f = 1 THEN "swProvider" ELSE "idle"]
    /\ candidates = [f \in Flows |-> <<>>]
    /\ resp = [f \in Flows |-> <<>>]
    /\ events = [f \in Flows |-> IF f = 1 THEN {"providerRequest"} ELSE {}]
    /\ geoError = [f \in Flows |-> <<>>]
    /\ shown = [f \in Flows |-> <<>>]
    /\ promptCount = 0
    /\ autocomplete = NoAutocomplete

NextRanking ==
    \E o \in ProviderOutcomes(CandidateLists) : ProviderResponds(1, o)

SpecRanking == InitRanking /\ [][NextRanking]_vars

(***************************************************************************)
(* SpecAutocomplete: the custom location field of a popup that holds an    *)
(* API key, with up to MaxRequests AUTOCOMPLETE requests.                  *)
(***************************************************************************)
InitAutocomplete ==
    /\ Init
    /\ getStoredApiKey # <<>>
    /\ storage.ipConsent = <<>>

\* the steps of the request n that take no input
RequestStep(n) ==
    \/ AutocompleteNotDelivered(n)
    \/ AutocompleteReceived(n)
    \/ handleAutocomplete(n)
    \/ PopupAutocompleteResponse(n)

NextAutocomplete ==
    \/ \E b \in BOOLEAN : toggleLocation(b)
    \/ \E t \in LocationTexts : InputLocation(t)
    \/ FocusLocation
    \/ BlurLocation
    \/ BlurTimerFires
    \/ EscapeKey
    \/ \E i \in 1..5 : selectAutocompleteItem(i)
    \/ AutocompleteTimerFires
    \/ \E n \in Requests :
        \/ \E o \in AutocompleteOutcomes : AutocompleteResponds(n, o)
        \/ RequestStep(n)

SpecAutocomplete == InitAutocomplete /\ [][NextAutocomplete]_vars

(***************************************************************************)
(* SpecSuggest: the service worker's handleAutocomplete and api.js         *)
(* getAutocompleteSuggestions on every input, with and without an API key. *)
(* It starts where an AUTOCOMPLETE message with the input has been sent.   *)
(***************************************************************************)
\* the inputs: every text of up to MaxInputLen characters
SuggestInputs == UNION { [1..n -> {"N", "Y"}] : n \in 0..MaxInputLen }

InitSuggest ==
    /\ storage \in [ apiKeyEnc : {<<>>, <<encryptValue(ValidApiKey)>>},
                     apiKey : {<<>>},
                     ipConsent : {<<>>},
                     lastResults : {<<>>},
                     preferences : {<<>>} ]
    /\ state = [ useCurrentLocation |-> FALSE, searchByCategory |-> TRUE,
                 algorithm |-> "bayesian", hasApiKey |-> getStoredApiKey # <<>> ]
    /\ visible = showSection("search")
    /\ keySaving = <<>>
    /\ migration = NoMigration
    /\ pc = [f \in Flows |-> "idle"]
    /\ req = [f \in Flows |-> NoRequest]
    /\ loc = [f \in Flows |-> NoLocation]
    /\ coordinates = [f \in Flows |-> <<>>]
    /\ bounds = [f \in Flows |-> <<>>]
    /\ candidates = [f \in Flows |-> <<>>]
    /\ resp = [f \in Flows |-> <<>>]
    /\ events = [f \in Flows |-> {}]
    /\ geoError = [f \in Flows |-> <<>>]
    /\ shown = [f \in Flows |-> <<>>]
    /\ promptCount = 0
    /\ \E input \in SuggestInputs :
          autocomplete = [NoAutocomplete EXCEPT
              !.value = input,
              !.issued = 1,
              !.requests[1] = [NoSuggestRequest EXCEPT !.pc = "msg", !.input = input]]

NextSuggest ==
    \/ AutocompleteReceived(1)
    \/ handleAutocomplete(1)
    \/ \E o \in AutocompleteOutcomes : AutocompleteResponds(1, o)
    \/ PopupAutocompleteResponse(1)

SpecSuggest == InitSuggest /\ [][NextSuggest]_vars

(***************************************************************************)
(* SpecKeys: the popup on a store that may hold a legacy key, the          *)
(* getStoredApiKey calls of the popup and of the service worker, and the   *)
(* migrations they start.  It starts after init(), whose getStoredApiKey   *)
(* has started a migration when it fell back to the legacy key.            *)
(***************************************************************************)
InitKeys ==
    /\ storage \in [ apiKeyEnc : {<<>>, <<encryptValue(ValidApiKey)>>},
                     apiKey : {<<>>, <<LegacyApiKey>>},
                     ipConsent : {<<>>},
                     lastResults : {<<>>},
                     preferences : {<<>>} ]
    /\ state = [ useCurrentLocation |-> TRUE, searchByCategory |-> TRUE,
                 algorithm |-> "bayesian", hasApiKey |-> getStoredApiKey # <<>> ]
    /\ visible = IF getStoredApiKey # <<>> THEN showSection("search")
                 ELSE showSection("api-key")
    /\ keySaving = <<>>
    /\ migration = [ NoMigration EXCEPT
          !.inFlight = IF FallsBackToLegacyKey
                       THEN << [ key |-> storage.apiKey[1], stage |-> "set" ] >>
                       ELSE <<>> ]
    /\ pc = [f \in Flows |-> "idle"]
    /\ req = [f \in Flows |-> NoRequest]
    /\ loc = [f \in Flows |-> NoLocation]
    /\ coordinates = [f \in Flows |-> <<>>]
    /\ bounds = [f \in Flows |-> <<>>]
    /\ candidates = [f \in Flows |-> <<>>]
    /\ resp = [f \in Flows |-> <<>>]
    /\ events = [f \in Flows |-> {}]
    /\ geoError = [f \in Flows |-> <<>>]
    /\ shown = [f \in Flows |-> <<>>]
    /\ promptCount = 0
    /\ autocomplete = NoAutocomplete

NextKeys ==
    \/ toggleSettings
    \/ ShowSearchAgain
    \/ \E k \in ApiKeyInputs : handleSaveApiKey(k)
    \/ SaveApiKeyDone
    \/ MigrateLegacyKey
    \/ \E i \in 1..MaxMigrations : MigrationSaved(i)
    \/ \E i \in 1..MaxMigrations : MigrationRemoved(i)

SpecKeys == InitKeys /\ [][NextKeys]_vars

(***************************************************************************)
(* The consent prompt.                                                     *)
(***************************************************************************)
\* the value true is stored under the consent key
ConsentPersisted == storage.ipConsent = <<TRUE>>

\* the invocations whose consent prompt is open
PromptOpen == { f \in Flows : pc[f] = "dialog" }

\* C1, as stated: over all current-location resolutions the consent prompt
\* is shown at most once.
C1_PromptShownAtMostOnce == promptCount <= 1

\* C1: once consent=true is persisted it stays persisted, and no resolution
\* opens the consent prompt from then on; a prompt that the user declined
\* leaves nothing behind, so that the next resolution prompts again.
C1_NoPromptOnceConsentPersisted ==
    [][ ConsentPersisted =>
          /\ ConsentPersisted'
          /\ PromptOpen' \subseteq PromptOpen
          /\ promptCount' = promptCount ]_vars

\* the user allowed a prompt, the consent was persisted, and a resolution
\* has since read the consent and gone on without a prompt
C1_ResolutionAfterConsent ==
    \E f \in Flows :
        /\ promptCount >= 1
        /\ ConsentPersisted
        /\ "consentRead" \in events[f]
        /\ "prompt" \notin events[f]

\* C2: of the current-location resolutions in flight together, at most one
\* has its consent prompt open.
C2_AtMostOnePromptOpen == Cardinality(PromptOpen) <= 1

\* what an invocation does of the consent gate and of the IP fallback
ConsentGateEvents == {"consentRead", "prompt", "consentSaved", "ipLookup"}

\* where an invocation stands between its read of the consent and the
\* response to GET_LOCATION
ConsentGateSteps ==
    {"consentRead", "dialog", "consentSave", "ipMsg", "ip1", "ip2", "ipResp"}

\* C3: a search from a custom location, and a search whose device
\* positioning succeeded, never reads the consent, never shows the prompt
\* and never issues an IP lookup; a position obtained without the consent
\* gate is the device position and is tagged 'gps'.
C3_SuppliedLocationSkipsConsentGate ==
    \A f \in Flows :
        /\ (loc[f].query # <<>> \/ loc[f].source = <<"gps">>) =>
              /\ events[f] \cap ConsentGateEvents = {}
              /\ pc[f] \notin ConsentGateSteps
        /\ (loc[f].point # <<>> /\ "consentRead" \notin events[f]) =>
              loc[f].source = <<"gps">>

\* a search from the device position has shown its results, after an earlier
\* search from a custom location has, on a store without the consent
C3_DeviceAndCustomSearchesDone ==
    \E f \in Flows :
        /\ pc[f] = "done"
        /\ shown[f] = <<>>
        /\ loc[f].source = <<"gps">>
        /\ storage.preferences # <<>>
        /\ ~storage.preferences[1].useCurrentLocation
        /\ ~ConsentPersisted

\* C4: when the user denies the prompt the resolution ends with
\* LocationDenied: the invocation is over, it has issued no IP lookup and
\* has not stored the consent, and the step of the denial leaves the stored
\* consent as it was.
C4_DenyEndsInLocationDenied ==
    /\ [](\A f \in Flows :
            geoError[f] = <<LocationDenied>> =>
                /\ pc[f] = "done"
                /\ shown[f] # <<>>
                /\ "prompt" \in events[f]
                /\ events[f] \cap {"consentSaved", "ipLookup"} = {})
    /\ [][\A f \in Flows :
            (pc[f] = "dialog" /\ pc'[f] = "done") =>
                /\ geoError'[f] = <<LocationDenied>>
                /\ ConsentPersisted' = ConsentPersisted]_vars

\* the user has denied the prompt of a resolution and the consent is not
\* stored
C4_PromptDenied ==
    \E f \in Flows : geoError[f] = <<LocationDenied>> /\ ~ConsentPersisted

\* C5: GET_LOCATION is sent, and the IP lookup issued, only while
\* consent=true is persisted; an invocation that showed the prompt has
\* stored the consent before; the location of a successful lookup is tagged
\* 'ip'.
C5_ConsentPersistedBeforeIPLookup ==
    \A f \in Flows :
        /\ (pc[f] \in {"ipMsg", "ip1", "ip2", "ipResp"} \/ "ipLookup" \in events[f]) =>
              /\ ConsentPersisted
              /\ "prompt" \in events[f] => "consentSaved" \in events[f]
        /\ (pc[f] = "ipResp" /\ resp[f][1].data # <<>>) =>
              resp[f][1].data[1].source = <<"ip">>
        /\ (loc[f].point # <<>> /\ "ipLookup" \in events[f]) =>
              loc[f].source = <<"ip">>

\* the user allowed the prompt of a resolution, which stored the consent and
\* got its location from the IP lookup
C5_AllowedThenLocatedByIP ==
    \E f \in Flows :
        /\ {"prompt", "consentSaved", "ipLookup"} \subseteq events[f]
        /\ loc[f].source = <<"ip">>

\* C6: the failure handleSearch reports for a failed location resolution is
\* the failure getCurrentPosition threw, LocationDenied or
\* LocationUnavailable.
C6_LocationFailureReportedUnchanged ==
    \A f \in Flows : geoError[f] # <<>> => shown[f] = geoError[f]

\* C7: no IP lookup, geocoding request or provider search request of a
\* search is in flight while no API key is stored.
C7_NoNetworkCallWithoutKey ==
    \A f \in Flows :
        pc[f] \in {"ip1", "ip2", "swGeocode", "swProvider"} => getStoredApiKey # <<>>

(***************************************************************************)
(* The responses to SEARCH.                                                *)
(***************************************************************************)
\* the response to the SEARCH of invocation f
SearchResponse(f) == resp[f][1]

\* C8: a SEARCH that is being handled has no response yet, and a SEARCH
\* that has been answered has exactly one response, which holds either a
\* list or an error.
C8_ExactlyOneResponse ==
    \A f \in Flows :
        /\ pc[f] \in {"searchMsg", "swKey", "swGeocode", "swProvider"} => resp[f] = <<>>
        /\ pc[f] = "searchResp" =>
              /\ Len(resp[f]) = 1
              /\ (SearchResponse(f).data # <<>>) # (SearchResponse(f).error # <<>>)

\* a SEARCH has been answered with a list that is not empty
C8_AnsweredWithList ==
    \E f \in Flows :
        /\ pc[f] = "searchResp"
        /\ SearchResponse(f).data # <<>>
        /\ Len(SearchResponse(f).data[1]) > 0

\* C9: a SEARCH that found no API key, or whose geocoding failed, has
\* issued no provider request and is answered with an error and no list; a
\* SEARCH whose provider request failed is answered with an error and no
\* list, and no scoring has run.
C9_FailureShortCircuits ==
    \A f \in Flows :
        /\ events[f] \cap {"keyMissing", "geocodeFailed"} # {} =>
              /\ "providerRequest" \notin events[f]
              /\ coordinates[f] = <<>>
              /\ candidates[f] = <<>>
        /\ events[f] \cap {"keyMissing", "geocodeFailed", "providerFailed"} # {} =>
              /\ pc[f] \in {"searchResp", "done"}
              /\ SearchResponse(f).error # <<>>
              /\ SearchResponse(f).data = <<>>
              /\ "scored" \notin events[f]

\* the geocoding of a SEARCH has failed
C9_GeocodingFailed ==
    \E f \in Flows : pc[f] = "searchResp" /\ "geocodeFailed" \in events[f]

\* a place survives the distance filter and the pre-filter of the ranking
Survives(place, center, radius) ==
    /\ place.location # <<>> =>
          haversineDistance(center.lat, center.lng, place.location[1].latitude,
                            place.location[1].longitude) <= radius
    /\ IsValidPlace(place)

\* the provider has answered the SEARCH of f and no place of its answer
\* survives
NoneSurvives(f) ==
    /\ candidates[f] # <<>>
    /\ \A i \in 1..Len(candidates[f][1]) :
          ~Survives(candidates[f][1][i], coordinates[f][1], req[f].radius)

\* C10: a SEARCH that the provider answered with no place, or with places
\* of which none survives, is answered with the empty list and no error.
C10_EmptyResultIsSuccess ==
    \A f \in Flows :
        (pc[f] = "searchResp" /\ NoneSurvives(f)) =>
            resp[f] = << [ data |-> << <<>> >>, error |-> <<>> ] >>

\* the provider answered with places, none of which survives
C10_AllCandidatesDropped ==
    \E f \in Flows :
        /\ pc[f] = "searchResp"
        /\ NoneSurvives(f)
        /\ Len(candidates[f][1]) > 0

(***************************************************************************)
(* The distance filter and the ranking.                                    *)
(***************************************************************************)
\* the provider has answered the search of invocation f with a list, and
\* handleSearch has answered the popup
Ranked(f) == pc[f] = "searchResp" /\ candidates[f] # <<>>

\* what searchByCategory or searchByText returned to handleSearch
Searched(f) ==
    IF req[f].searchMode = "category"
    THEN searchByCategory(candidates[f][1], coordinates[f][1], req[f].radius)
    ELSE searchByText(candidates[f][1], coordinates[f][1], req[f].radius)

\* the output of the ranking on it
Scored(f) == calculateScores(Searched(f), req[f].algorithm)

\* the list handleSearch answered with
Returned(f) == SearchResponse(f).data[1]

\* a scored place as it was before the ranking
Unscored(place) == [place EXCEPT !.bayesianScore = <<>>]

Range(s) == { s[i] : i \in 1..Len(s) }

CountIn(s, x) == Cardinality({ i \in 1..Len(s) : s[i] = x })

\* the place has a rating above 0 and a review count of at least MIN_REVIEWS
PassesPreFilter(place) ==
    /\ place.rating # <<>>
    /\ place.rating[1] > 0
    /\ place.userRatingCount # <<>>
    /\ place.userRatingCount[1] >= MIN_REVIEWS

\* C11: the list a search returns has at most TOP_RESULTS_TO_SHOW entries
\* and is the first min(TOP_RESULTS_TO_SHOW, k) entries of the score-ordered
\* list of the k surviving candidates, in the same order; no candidate that
\* is left out has a higher score than one that is returned.
C11_TopOfScoreOrder ==
    \A f \in Flows :
        Ranked(f) =>
            LET scored == Scored(f)
                n == IF Len(scored) < TOP_RESULTS_TO_SHOW THEN Len(scored)
                     ELSE TOP_RESULTS_TO_SHOW
            IN /\ SearchResponse(f).data # <<>>
               /\ Len(Returned(f)) <= TOP_RESULTS_TO_SHOW
               /\ Len(Returned(f)) = n
               /\ \A i \in 1..n :
                     /\ Returned(f)[i].placeId = scored[i].id
                     /\ Returned(f)[i].bayesianScore = scored[i].bayesianScore
               /\ \A i \in 1..n, j \in (n + 1)..Len(scored) :
                     ~FracLess(Returned(f)[i].bayesianScore, scored[j].bayesianScore)

\* more than TOP_RESULTS_TO_SHOW candidates survive, and one that is left
\* out scores lower than every one that is returned
C11_CandidatesLeftOut ==
    \E f \in Flows :
        /\ Ranked(f)
        /\ Len(Scored(f)) > TOP_RESULTS_TO_SHOW
        /\ Len(Returned(f)) = TOP_RESULTS_TO_SHOW
        /\ \A i \in 1..Len(Returned(f)) :
              FracLess(Scored(f)[Len(Scored(f))].bayesianScore,
                       Returned(f)[i].bayesianScore)

\* C12: with either algorithm the output of the ranking is in descending
\* order of score, and the places of one score stand in the order they have
\* in the input.
C12_DescendingAndStable ==
    \A f \in Flows :
        Ranked(f) =>
            LET input == Searched(f)
                out == Scored(f)
            IN /\ \A k \in 1..(Len(out) - 1) :
                     ~FracLess(out[k].bayesianScore, out[k + 1].bayesianScore)
               /\ \A k \in 1..Len(out) :
                     LET score == out[k].bayesianScore
                         Tied(q) == q.bayesianScore = score
                         TiedInput(p) ==
                             /\ PassesPreFilter(p)
                             /\ \E q \in Range(out) :
                                   Unscored(q) = p /\ q.bayesianScore = score
                         tied == SelectSeq(out, Tied)
                     IN [i \in 1..Len(tied) |-> Unscored(tied[i])]
                            = SelectSeq(input, TiedInput)

\* the popularity ranking moved a place up, and two different places of one
\* score follow each other in its output
C12_ReorderedWithTie ==
    \E f \in Flows :
        /\ Ranked(f)
        /\ req[f].algorithm = "popularity"
        /\ \E k \in 1..(Len(Scored(f)) - 1) :
              /\ Scored(f)[k].bayesianScore = Scored(f)[k + 1].bayesianScore
              /\ Scored(f)[k].id # Scored(f)[k + 1].id
        /\ [k \in 1..Len(Scored(f)) |-> Unscored(Scored(f)[k])]
              # SelectSeq(Searched(f), PassesPreFilter)

\* C13: with either algorithm the output of the ranking is a permutation of
\* the input candidates that pass the pre-filter: each of them is in the
\* output as often as in the input and nothing else is; when none passes
\* the output is empty and the search is answered without an error.
C13_PermutationOfPassing ==
    \A f \in Flows :
        Ranked(f) =>
            LET passing == SelectSeq(Searched(f), PassesPreFilter)
                out == [k \in 1..Len(Scored(f)) |-> Unscored(Scored(f)[k])]
            IN /\ Len(out) = Len(passing)
               /\ \A p \in Range(passing) \cup Range(out) :
                     CountIn(out, p) = CountIn(passing, p)
               /\ SearchResponse(f).error = <<>>
               /\ passing = <<>> => Scored(f) = <<>> /\ Returned(f) = <<>>

\* the ranking dropped a place without a review count, kept one place
\* twice, and changed the order
C13_DroppedKeptAndMoved ==
    \E f \in Flows :
        /\ Ranked(f)
        /\ \E i \in 1..Len(Searched(f)) :
              /\ Searched(f)[i].rating # <<>>
              /\ Searched(f)[i].userRatingCount = <<>>
        /\ \E k, l \in 1..Len(Scored(f)) : k # l /\ Scored(f)[k] = Scored(f)[l]
        /\ [k \in 1..Len(Scored(f)) |-> Unscored(Scored(f)[k])]
              # SelectSeq(Searched(f), PassesPreFilter)

\* the candidates of Scenario 1: 4.5 stars with 200 reviews, then 5.0 stars
\* with 2 reviews
Scenario1(places) ==
    [i \in 1..Len(places) |-> <<places[i].rating, places[i].userRatingCount>>]
        = << << <<45>>, <<200>> >>, << <<50>>, <<2>> >> >>

\* C14: when the candidates of Scenario 1 are ranked with the Bayesian
\* algorithm, the candidate with 200 reviews is ranked above the candidate
\* with 2 reviews.
C14_ManyReviewsOutrankFew ==
    \A f \in Flows :
        (Ranked(f) /\ req[f].algorithm = "bayesian" /\ Scenario1(Searched(f))) =>
            /\ Len(Returned(f)) = 2
            /\ Returned(f)[1].reviewCount = 200
            /\ Returned(f)[2].reviewCount = 2

\* the ratings and the review counts a candidate may have
Ratings == { near.rating[1] : near \in { n \in PlacesNear : n.rating # <<>> } }

ReviewCounts ==
    { near.userRatingCount[1] : near \in { n \in PlacesNear : n.userRatingCount # <<>> } }

\* the Bayesian score of the candidate at position i of places
BayesianScoreAt(places, i) ==
    (CHOOSE q \in Range(calculateBayesianScores(places)) :
        Unscored(q) = places[i]).bayesianScore

\* the prior mean of the candidates
PriorMeanOf(places) == calculatePriorMean(SelectSeq(places, PassesPreFilter))

\* places with another rating, or another review count, at position i
Rated(places, i, rating) == [places EXCEPT ![i].rating = <<rating>>]

Reviewed(places, i, count) == [places EXCEPT ![i].userRatingCount = <<count>>]

\* C15: in every candidate list, a candidate's Bayesian score does not drop
\* when its rating is raised and its review count kept, and does not drop
\* when its review count is raised and its rating kept, if the rating is
\* above the prior mean; and of two candidates of one list with one review
\* count the higher rated one does not score lower, and of two with one
\* rating above the prior mean the one with more reviews does not.
C15_ScoreMonotone ==
    \A f \in Flows :
        (Ranked(f) /\ req[f].algorithm = "bayesian") =>
            LET places == Searched(f)
                passing == { i \in 1..Len(places) : PassesPreFilter(places[i]) }
                AboveMean(i) == FracLess(PriorMeanOf(places), <<places[i].rating[1], 1>>)
            IN /\ \A i \in passing :
                     /\ \A r \in Ratings :
                           r >= places[i].rating[1] =>
                             ~FracLess(BayesianScoreAt(Rated(places, i, r), i),
                                       BayesianScoreAt(places, i))
                     /\ AboveMean(i) =>
                           \A v \in ReviewCounts :
                             v >= places[i].userRatingCount[1] =>
                               ~FracLess(BayesianScoreAt(Reviewed(places, i, v), i),
                                         BayesianScoreAt(places, i))
               /\ \A i, j \in passing :
                     /\ (/\ places[i].userRatingCount = places[j].userRatingCount
                         /\ places[i].rating[1] <= places[j].rating[1]) =>
                           ~FracLess(BayesianScoreAt(places, j), BayesianScoreAt(places, i))
                     /\ (/\ places[i].rating = places[j].rating
                         /\ AboveMean(i)
                         /\ places[i].userRatingCount[1] <= places[j].userRatingCount[1]) =>
                           ~FracLess(BayesianScoreAt(places, j), BayesianScoreAt(places, i))

\* a candidate rated above the prior mean scores higher with more reviews,
\* and a candidate rated below the prior mean scores lower with more reviews
C15_ReviewsRaiseAndLower ==
    \E f \in Flows :
        /\ Ranked(f)
        /\ req[f].algorithm = "bayesian"
        /\ \E i, j \in 1..Len(Searched(f)) :
              /\ PassesPreFilter(Searched(f)[i])
              /\ PassesPreFilter(Searched(f)[j])
              /\ FracLess(PriorMeanOf(Searched(f)), <<Searched(f)[i].rating[1], 1>>)
              /\ FracLess(<<Searched(f)[j].rating[1], 1>>, PriorMeanOf(Searched(f)))
              /\ \E v \in ReviewCounts :
                    /\ v > Searched(f)[i].userRatingCount[1]
                    /\ FracLess(BayesianScoreAt(Searched(f), i),
                                BayesianScoreAt(Reviewed(Searched(f), i, v), i))
              /\ \E v \in ReviewCounts :
                    /\ v > Searched(f)[j].userRatingCount[1]
                    /\ FracLess(BayesianScoreAt(Reviewed(Searched(f), j, v), j),
                                BayesianScoreAt(Searched(f), j))

\* the great-circle distance of a place that has a location from the centre
\* of the search of invocation f
DistanceOf(f, place) ==
    haversineDistance(coordinates[f][1].lat, coordinates[f][1].lng,
                      place.location[1].latitude, place.location[1].longitude)

\* C16: filterByDistance returns, in the order of the input, the candidates
\* that have no coordinate and the candidates whose great-circle distance
\* from the centre is at most the radius, those at the radius itself
\* among them, and no others.
C16_FilterKeepsWithinRadius ==
    \A f \in Flows :
        Ranked(f) =>
            LET Retained(place) == \/ place.location = <<>>
                                   \/ DistanceOf(f, place) <= req[f].radius
                filtered == filterByDistance(candidates[f][1], coordinates[f][1],
                                             req[f].radius)
            IN [i \in 1..Len(filtered) |-> [filtered[i] EXCEPT !.distanceMeters = <<>>]]
                   = SelectSeq(candidates[f][1], Retained)

\* the filter kept a candidate at the radius itself and one without a
\* coordinate, and dropped one beyond the radius
C16_AtInsideBeyond ==
    \E f \in Flows :
        /\ Ranked(f)
        /\ \E i, j, k \in 1..Len(candidates[f][1]) :
              /\ candidates[f][1][i].location # <<>>
              /\ DistanceOf(f, candidates[f][1][i]) = req[f].radius
              /\ candidates[f][1][j].location = <<>>
              /\ candidates[f][1][k].location # <<>>
              /\ DistanceOf(f, candidates[f][1][k]) > req[f].radius
        /\ Len(filterByDistance(candidates[f][1], coordinates[f][1], req[f].radius))
              = Len(candidates[f][1]) - 1

\* C17: in the category mode and in the text mode, every candidate that
\* the search returns with a coordinate lies within the radius of the
\* centre and carries its distance from the centre as distanceMeters.
C17_ReturnedWithinRadius ==
    \A f \in Flows :
        (Ranked(f) /\ req[f].searchMode \in {"category", "text"}) =>
            \A i \in 1..Len(Searched(f)) :
                Searched(f)[i].location # <<>> =>
                    /\ Searched(f)[i].distanceMeters = <<DistanceOf(f, Searched(f)[i])>>
                    /\ DistanceOf(f, Searched(f)[i]) <= req[f].radius

\* a text search whose provider answered with a candidate beyond the radius
\* and one within it
C17_TextSearchFiltered ==
    \E f \in Flows :
        /\ Ranked(f)
        /\ req[f].searchMode = "text"
        /\ \E i \in 1..Len(candidates[f][1]) :
              /\ candidates[f][1][i].location # <<>>
              /\ DistanceOf(f, candidates[f][1][i]) > req[f].radius
        /\ \E i \in 1..Len(Searched(f)) : Searched(f)[i].distanceMeters # <<>>

(***************************************************************************)
(* The search centre.                                                      *)
(***************************************************************************)
\* the pairs that the "lat,lng" locations of the model spell out, in
\* thousandths of a degree: "40.7128,-74.0060" and "1.5, -2"
SpelledPair(query) ==
    CASE query = LatLngText -> << [lat |-> 40712, lng |-> -74006] >>
      [] query = <<"1", ".", "5", ",", " ", "-", "2">> -> << [lat |-> 1500, lng |-> -2000] >>
      [] OTHER -> <<>>

\* handleSearch has the coordinates of its search centre
CentreResolved(f) == pc[f] \in {"swProvider", "searchResp", "done"} /\ coordinates[f] # <<>>

\* C18: a search whose location is the text of a "lat,lng" pair issues no
\* geocoding request and, once past the API key check, has the pair the
\* text spells out as its centre; a search whose location is a coordinate
\* issues no geocoding request and has that coordinate as its centre.
C18_CoordinatesNeedNoGeocoding ==
    \A f \in Flows :
        /\ (pc[f] # "idle" /\ SpelledPair(loc[f].query) # <<>>) =>
              /\ "geocodeRequest" \notin events[f]
              /\ pc[f] # "swGeocode"
              /\ "providerRequest" \in events[f] =>
                    /\ CentreResolved(f)
                    /\ coordinates[f] = SpelledPair(loc[f].query)
        /\ (pc[f] # "idle" /\ loc[f].query = <<>> /\ loc[f].point # <<>>) =>
              /\ "geocodeRequest" \notin events[f]
              /\ pc[f] # "swGeocode"
              /\ "providerRequest" \in events[f] =>
                    /\ CentreResolved(f)
                    /\ coordinates[f] = loc[f].point

\* the search around "40.7128,-74.0060" has asked the provider for places
C18_PairTextResolved ==
    \E f \in Flows :
        /\ loc[f].query = LatLngText
        /\ CentreResolved(f)
        /\ "providerRequest" \in events[f]
        /\ coordinates[f] = << [lat |-> 40712, lng |-> -74006] >>

(***************************************************************************)
(* The errors of the provider.                                             *)
(***************************************************************************)
\* C19: a search whose places request or geocoding request the provider
\* answered with a response that is not a 2xx is answered with an error,
\* which is the provider's message when the response held one and the
\* generic message of the places requests when a places response held
\* none; and an autocomplete request that the provider answered with such
\* a response is answered with an error.
C19_ProviderErrorsSurfaced ==
    /\ \A f \in Flows :
          (pc[f] = "searchResp" /\ events[f] \cap {"placesNotOk", "geocodeNotOk"} # {}) =>
              /\ SearchResponse(f).error # <<>>
              /\ "providerMessage" \in events[f] =>
                    SearchResponse(f).error = <<ProviderMessage>>
              /\ ("placesNotOk" \in events[f] /\ "providerMessage" \notin events[f]) =>
                    SearchResponse(f).error = <<PlacesApiError>>
    /\ \A n \in Requests :
          (/\ autocomplete.requests[n].pc = "resp"
           /\ autocomplete.requests[n].fetched = <<"notOk">>) =>
              autocomplete.requests[n].resp[1].error # <<>>

(***************************************************************************)
(* The suggestion dropdown.                                                *)
(***************************************************************************)
\* C20: the dropdown takes up no suggestions but those of the request that
\* was sent last: the suggestions of a request that arrive when a later
\* request has been sent are not shown.
C20_StaleSuggestionsDiscarded ==
    [][ (/\ autocomplete'.dropdown # autocomplete.dropdown
         /\ autocomplete'.dropdown # <<>>) =>
            autocomplete'.dropdown[1].request = autocomplete'.issued ]_vars

\* C21: an AUTOCOMPLETE is answered with at most 5 suggestions; on an input
\* shorter than 2 characters it is answered with no suggestion, and the
\* autocomplete endpoint is not fetched.
C21_AtMostFiveAndNoneForShortInput ==
    \A n \in Requests :
        LET request == autocomplete.requests[n] IN
        /\ request.resp # <<>> =>
              /\ request.resp[1].data # <<>>
              /\ Len(request.resp[1].data[1]) <= 5
        /\ (request.pc # "idle" /\ Len(request.input) < 2) =>
              /\ request.pc # "fetch"
              /\ request.fetched = <<>>
              /\ request.resp # <<>> => request.resp[1].data = << <<>> >>

\* with an API key stored, an AUTOCOMPLETE with an input of one character
\* has been answered
C21_ShortInputAnswered ==
    \E n \in Requests :
        /\ getStoredApiKey # <<>>
        /\ Len(autocomplete.requests[n].input) = 1
        /\ autocomplete.requests[n].pc = "resp"
        /\ autocomplete.requests[n].resp # <<>>

\* getCurrentPosition of invocation f has returned the IP position
LocatedByIP(f) == pc[f] = "searchMsg" /\ loc[f].source = <<"ip">> /\ loc[f].point # <<>>

\* getCurrentPosition of invocation f has thrown
LocationFailed(f) == pc[f] = "done" /\ geoError[f] # <<>>

\* C22: once the device position has failed, getCurrentPosition eventually
\* returns a coordinate or throws, when the consent dialog is answered and
\* every call it awaits returns.
C22_ResolutionEnds ==
    \A f \in {1} : (pc[f] = "consentRead") ~> (LocatedByIP(f) \/ LocationFailed(f))

\* after the device position failed, the second IP service has been asked
\* and the response to GET_LOCATION is on its way
C22_SecondServiceAnswered ==
    \E f \in Flows : pc[f] = "ipResp" /\ "prompt" \in events[f] /\ resp[f] # <<>>
                      /\ resp[f][1].error # <<>>

(***************************************************************************)
(* The search centre.                                                      *)
(***************************************************************************)
\* a point of the globe, in thousandths of a degree
OnGlobe(point) ==
    /\ -90000 <= point.lat /\ point.lat <= 90000
    /\ -180000 <= point.lng /\ point.lng <= 180000

\* C23: the coordinates handleSearch resolves the location to, which are the
\* centre of the request to the provider, have a latitude in [-90, 90] and a
\* longitude in [-180, 180], also when the custom location spells them.
C23_CentreOnGlobe ==
    \A f \in Flows : coordinates[f] # <<>> => OnGlobe(coordinates[f][1])

(***************************************************************************)
(* The distance of a result.                                               *)
(***************************************************************************)
\* the candidates of invocation f that a returned result was made from
CandidatesOf(f, result) ==
    { i \in 1..Len(candidates[f][1]) : candidates[f][1][i].id = result.placeId }

\* C24: a returned result of a place that has a location, whose distance
\* from the centre the filter computed (0 or more), carries that distance in
\* tenths of a kilometre; a result without distanceKm is of a place without
\* a location.
C24_KnownDistanceCarried ==
    \A f \in Flows :
        Ranked(f) =>
            \A k \in 1..Len(Returned(f)) :
                \A i \in CandidatesOf(f, Returned(f)[k]) :
                    LET place == candidates[f][1][i] IN
                    IF place.location # <<>>
                    THEN Returned(f)[k].distanceKm = <<distanceKm(DistanceOf(f, place))>>
                    ELSE Returned(f)[k].distanceKm = <<>>

\* the candidates of invocation f, filtered once
FilteredOnce(f) == filterByDistance(candidates[f][1], coordinates[f][1], req[f].radius)

\* C25: filterByDistance applied to its own output, with the same centre and
\* radius, returns the same candidates in the same order with the same
\* distanceMeters.
C25_FilterIdempotent ==
    \A f \in Flows :
        Ranked(f) =>
            filterByDistance(FilteredOnce(f), coordinates[f][1], req[f].radius)
                = FilteredOnce(f)

\* the filter dropped a candidate, and kept one away from the centre and one
\* without a location
C25_DroppedAndKept ==
    \E f \in Flows :
        /\ Ranked(f)
        /\ Len(FilteredOnce(f)) < Len(candidates[f][1])
        /\ \E i, j \in 1..Len(FilteredOnce(f)) :
              /\ FilteredOnce(f)[i].distanceMeters # <<>>
              /\ FilteredOnce(f)[i].distanceMeters[1] > 0
              /\ FilteredOnce(f)[j].distanceMeters = <<>>

(***************************************************************************)
(* The scores of the two algorithms.                                       *)
(***************************************************************************)
\* the candidates of invocation f that pass the pre-filter
Survivors(f) == SelectSeq(Searched(f), PassesPreFilter)

\* max(reviewCount, 1) of a candidate
WeightOf(place) ==
    IF place.userRatingCount = <<>> \/ place.userRatingCount[1] < 1 THEN 1
    ELSE place.userRatingCount[1]

\* the sum of the weights of the survivors, and of their weighted ratings
TotalWeight(f) == SumOver([i \in 1..Len(Survivors(f)) |-> WeightOf(Survivors(f)[i])])

TotalWeightedRating(f) ==
    SumOver([i \in 1..Len(Survivors(f)) |->
                Survivors(f)[i].rating[1] * WeightOf(Survivors(f)[i])])

\* C26: under the Bayesian algorithm every surviving candidate is scored, and
\* the score s of one with rating R and v reviews is (C*m + R*v) / (C + v),
\* where m is the sum of rating * max(reviewCount, 1) over the survivors
\* divided by the sum of max(reviewCount, 1), and DEFAULT_PRIOR_MEAN only when
\* that sum is zero.  With m = p/w: s = (C * p + R * v * w) / (w * (C + v)).
C26_BayesianScoreFormula ==
    \A f \in Flows :
        (Ranked(f) /\ req[f].algorithm = "bayesian") =>
            /\ Len(Scored(f)) = Len(Survivors(f))
            /\ \A k \in 1..Len(Scored(f)) :
                  LET place == Scored(f)[k]
                      R == place.rating[1]
                      v == place.userRatingCount[1]
                      score == place.bayesianScore
                      C == CONFIDENCE_THRESHOLD
                      p == IF TotalWeight(f) = 0 THEN DEFAULT_PRIOR_MEAN
                           ELSE TotalWeightedRating(f)
                      w == IF TotalWeight(f) = 0 THEN 1 ELSE TotalWeight(f)
                  IN /\ \E i \in 1..Len(Survivors(f)) : Unscored(place) = Survivors(f)[i]
                     /\ score = Frac(C * p + R * v * w, w * (C + v))

\* the Bayesian algorithm scored survivors of different ratings and
\* different review counts
C26_UnlikeSurvivorsScored ==
    \E f \in Flows :
        /\ Ranked(f)
        /\ req[f].algorithm = "bayesian"
        /\ \E i, j \in 1..Len(Scored(f)) :
              /\ Scored(f)[i].rating # Scored(f)[j].rating
              /\ Scored(f)[i].userRatingCount # Scored(f)[j].userRatingCount

C28_RectangleHoldsCentre ==
    \A f \in Flows :
        LET centre == coordinates[f][1]
            rectangle == bounds[f][1]
        IN (/\ bounds[f] # <<>>
            /\ -90000 <= centre.lat /\ centre.lat <= 90000
            /\ req[f].radius > 0) =>
               /\ rectangle.south <= centre.lat /\ centre.lat <= rectangle.north
               /\ rectangle.west <= centre.lng /\ centre.lng <= rectangle.east

\* a text search around a pole has sent its rectangle
C28_RectangleAtPole ==
    \E f \in Flows :
        /\ bounds[f] # <<>>
        /\ pc[f] = "swProvider"
        /\ coordinates[f][1].lat \in {90000, -90000}

(***************************************************************************)
(* The debounce of the autocomplete requests.                              *)
(***************************************************************************)
\* C29: at most one debounce timer is pending, and it is the timer of the
\* last input event, every earlier one being cancelled; a request is sent
\* only by that timer, when no input event came after it was started, it
\* carries the input of that event, of at least 2 characters, and it leaves
\* no timer pending, so that the events before it produce no other request.
C29_Debounced ==
    /\ [](/\ Len(autocomplete.timeout) <= 1
          /\ \A i \in 1..Len(autocomplete.timeout) :
                autocomplete.latest = <<autocomplete.timeout[i]>>)
    /\ [][ autocomplete'.issued # autocomplete.issued =>
             LET sent == autocomplete'.requests[autocomplete'.issued] IN
             /\ autocomplete'.issued = autocomplete.issued + 1
             /\ sent.pc = "msg"
             /\ autocomplete.timeout = <<sent.input>>
             /\ autocomplete.latest = <<sent.input>>
             /\ Len(sent.input) >= 2
             /\ autocomplete'.timeout = <<>> ]_vars

\* a request has been sent with the input of one event, and the timer of a
\* later event, with another input, is pending
C29_TimerPendingAfterRequest ==
    /\ autocomplete.issued = 1
    /\ autocomplete.requests[1].input = <<"N", "Y">>
    /\ autocomplete.timeout = << <<"N", "Y", "C">> >>

(***************************************************************************)
(* The API key and the migration of the legacy key.                        *)
(***************************************************************************)
\* C30: once the saveApiKey(k) of handleSaveApiKey has completed,
\* getStoredApiKey resolves with k, whatever a migration of the legacy key
\* that was in flight does afterwards.
C30_SavedKeyReturned ==
    migration.saved # <<>> => getStoredApiKey = migration.saved

(***************************************************************************)
(* The stored results and preferences.                                     *)
(***************************************************************************)
\* the step writes the stored last results or the stored preferences
StoredSearchWritten ==
    \/ storage'.lastResults # storage.lastResults
    \/ storage'.preferences # storage.preferences

\* the step ends invocation f in showError
EndsInError(f) == pc[f] # "done" /\ pc'[f] = "done" /\ shown'[f] # <<>>

\* C31: the step that ends a search in an error (a missing query or
\* location, a location failure, an error response, a message that is not
\* delivered) leaves the stored last results and preferences as they are;
\* they are written only by the step of an invocation that has received a
\* response to SEARCH without an error.
C31_WrittenOnlyOnSuccess ==
    [][ /\ \A f \in Flows : EndsInError(f) => ~StoredSearchWritten
        /\ StoredSearchWritten =>
              \E f \in Flows : /\ pc[f] = "searchResp"
                                /\ resp[f] # <<>>
                                /\ resp[f][1].error = <<>>
                                /\ pc'[f] = "done"
                                /\ ~EndsInError(f) ]_vars

\* with the results and the preferences of an earlier search stored, a search
\* has ended in the error of the response to SEARCH
C31_ErrorAfterStoredSearch ==
    \E f \in Flows :
        /\ storage.lastResults # <<>>
        /\ storage.preferences # <<>>
        /\ pc[f] = "done"
        /\ shown[f] # <<>>
        /\ resp[f] # <<>>
        /\ resp[f][1].error # <<>>

=============================================================================
